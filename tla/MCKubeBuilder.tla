---------------------------- MODULE MCKubeBuilder ----------------------------
(* Model-checking instance of KubeBuilder: concurrent builds, the default *)
(* adapter parameters, two pods of which one has a service, and inputs    *)
(* that name a pod, name nothing, are empty or are not strings.           *)
EXTENDS KubeBuilder, TLC

MCRoles == DOMAIN DefaultConf.inputName
MCInputName == DefaultConf.inputName
MCPrefix == DefaultConf.prefix
MCValueName == DefaultConf.valueName
MCFields == DOMAIN MCValueName \ {"Service"}
MCDomain == DefaultConf.domain

MCCluster ==
    {[Labels |-> "app=hello", PodName |-> "p1", Namespace |-> "default",
      ServiceAccountName |-> "sa", PodIP |-> "10.0.0.1", HostIP |-> "10.1.0.1"],
     [Labels |-> "", PodName |-> "p2", Namespace |-> "default",
      ServiceAccountName |-> "", PodIP |-> "10.0.0.2", HostIP |-> ""]}
MCServiceOf == <<"default", "p1">> :> <<"hello">>

MCStr(labels) == [str |-> TRUE, labels |-> labels]

MCInputs ==
    {[sourceUID |-> MCStr(<<"p1", "default">>),
      targetUID |-> MCStr(<<"p2", "default">>)],
     [sourceUID |-> MCStr(<<>>),
      originUID |-> [str |-> FALSE, labels |-> <<"p1", "default">>]],
     [targetUID |-> MCStr(<<"p1">>),
      originUID |-> MCStr(<<"p2", "default">>)]}

=============================================================================
