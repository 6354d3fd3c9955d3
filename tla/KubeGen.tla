------------------------------- MODULE KubeGen -------------------------------
(***************************************************************************)
(* The attribute generation of the kubernetes adapter                      *)
(* (src/adapter/kubernetes/kubernetes.go): kubegen.Generate looks up the   *)
(* pod each of the source, target and origin UID inputs names in the pod   *)
(* cache, and adds the pod's non-empty fields and the canonical name of    *)
(* its service under the role's prefix.                                    *)
(*                                                                         *)
(* Strings are abstracted to what the code splits and joins: a DNS name is *)
(* the sequence of its dot-separated labels, a port suffix is a flag, an   *)
(* attribute name valueName(prefix, value) is the pair of its two parts.   *)
(* The cache (client-go, not under src/) is the set Cluster of pods once   *)
(* it has synced, and empty before.  UIDs that are IP addresses are left  *)
(* out: how the cache indexes pods by IP is not part of this code.         *)
(***************************************************************************)
EXTENDS Naturals, Sequences

CONSTANTS
    Roles,        \* "source", "target", "origin"
    InputName,    \* InputName[r]: params.SourceUidInputName, ...
    Prefix,       \* Prefix[r]: params.SourcePrefix, ...
    Fields,       \* the pod fields addPodValues copies (labels, name, ...)
    ValueName,    \* ValueName[f]: params.LabelsValueName, ..., for Fields
                  \* and "Service"
    Domain,       \* params.ClusterDomainName, as its labels
    Cluster,      \* the pods: [Fields -> values], "" for an empty field
    ServiceOf     \* ServiceOf[<<ns, name>>]: the name of the pod's service

\* conf, the parameters DefaultConfig hands out: the UID input names, the
\* role prefixes, the value names and the cluster domain of the adapter's
\* constants.
DefaultConf ==
    LET roles == {"source", "target", "origin"}
    IN  [inputName |-> [r \in roles |-> r \o "UID"],
         prefix    |-> [r \in roles |-> r],
         valueName |-> [f \in {"Labels", "PodName", "PodIP", "HostIP",
                                "Namespace", "ServiceAccountName",
                                "Service"} |-> f],
         domain    |-> <<"svc", "cluster", "local">>]

NoService == <<>>   \* GetServiceForPod found no service

\* ValidateConfig: every parameter populated, and a cluster domain of three
\* labels.  The adapter is only built with parameters that pass it.
ValidateConfig ==
    /\ \A r \in Roles : InputName[r] # "" /\ Prefix[r] # ""
    /\ \A f \in DOMAIN ValueName : ValueName[f] # ""
    /\ Len(Domain) = 3

ASSUME ValidConfigAssumption == ValidateConfig

\* ClusterDomainName is a string, split at its dots.  GetServiceForPod
\* returns a Service object's name, a DNS-1035 label: one label, with no
\* dot in it.
ASSUME NamesAssumption ==
    /\ Domain \in Seq(STRING)
    /\ \A k \in DOMAIN ServiceOf : ServiceOf[k] \in Seq(STRING) /\ Len(ServiceOf[k]) = 1

\* key(namespace, name) of a pod.
PodKey(p) == <<p["Namespace"], p["PodName"]>>

\* Mutant: key(parts[0], parts[1]), namespace and name swapped.
KeyFromUIDSwapped(uid) == uid

\* keyFromUID: "kubernetes://" is trimmed; a name of exactly two labels
\* "name.namespace" becomes key(namespace, name), any other name is kept.
KeyFromUID(uid) == IF Len(uid) = 2 THEN <<uid[2], uid[1]>> ELSE uid

\* Mutant: the loop adding the missing domain labels starts one too late.
CanonicalNameLate(svc, ns) ==
    LET s == svc.labels
        rest == Len(s) - 2
    IN  CASE Len(s) = 0 -> <<>>
          [] Len(s) = 1 -> <<s[1], ns>> \o Domain
          [] Len(s) = 2 -> s \o Domain
          [] rest >= Len(Domain) -> s
          [] OTHER -> s \o SubSeq(Domain, rest + 2, Len(Domain))

\* canonicalName of a service [labels |-> ..., port |-> BOOLEAN]: the port
\* is dropped; one label gets the namespace and the domain, two labels get
\* the domain, three or more get the labels of the domain they lack.
\* <<>> is an error.
CanonicalName(svc, ns) ==
    LET s == svc.labels
        rest == Len(s) - 2
    IN  CASE Len(s) = 0 -> <<>>
          [] Len(s) = 1 -> <<s[1], ns>> \o Domain
          [] Len(s) = 2 -> s \o Domain
          [] rest >= Len(Domain) -> s
          [] OTHER -> s \o SubSeq(Domain, rest + 1, Len(Domain))

\* addPodValues: the pod's non-empty fields, and the canonical name of its
\* service when there is one and it canonicalizes, under the prefix; as a
\* set of <<attribute name, value>> pairs.
AddPodValues(prefix, p, svc) ==
    {<<<<prefix, ValueName[f]>>, p[f]>> : f \in {g \in Fields : p[g] # ""}}
    \cup
    IF svc # NoService /\ CanonicalName(svc, p["Namespace"]) # <<>>
      THEN {<<<<prefix, ValueName["Service"]>>,
              CanonicalName(svc, p["Namespace"])>>}
      ELSE {}

\* addValues over a cache holding the pods in cache: nothing when GetPod
\* does not find the pod.
AddValues(cache, uid, prefix) ==
    LET hits == {p \in cache : PodKey(p) = KeyFromUID(uid)}
    IN  UNION {AddPodValues(prefix, p,
                   IF PodKey(p) \in DOMAIN ServiceOf
                     THEN [labels |-> ServiceOf[PodKey(p)], port |-> FALSE]
                     ELSE NoService)
               : p \in hits}

\* The roles whose input is present and, by uid.(string), a non-empty
\* string.  An input value is [str |-> is it a string, labels |-> ...].
UIDRoles(inputs) ==
    {r \in Roles : /\ InputName[r] \in DOMAIN inputs
                   /\ inputs[InputName[r]].str
                   /\ inputs[InputName[r]].labels # <<>>}

\* Generate: addValues for the UID of each such role.
Generate(cache, inputs) ==
    UNION {AddValues(cache, inputs[InputName[r]].labels, Prefix[r]) :
             r \in UIDRoles(inputs)}

-----------------------------------------------------------------------------
\* The forms of a service name the comment above canonicalName lists:
\* "hello", "hello.default", ... "hello.default.svc.cluster.local", each
\* with or without ":80", for the service of the pod with key k; TRUE when
\* each canonicalizes to the fully qualified name service.namespace.domain.
DocumentedFormsCanonical(k) ==
    LET full == <<ServiceOf[k][1], k[1]>> \o Domain
    IN  \A n \in 1..Len(full), port \in BOOLEAN :
            CanonicalName([labels |-> SubSeq(full, 1, n), port |-> port],
                          k[1]) = full

=============================================================================
