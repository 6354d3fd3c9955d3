\* A handler whose configure code panics, visited before another handler.
CONSTANTS
    Handlers = {"h1", "h2"}
    Templates = {"t1", "t2"}
    Instances = {"i1", "i2", "i3"}
    TemplateOf <- MCTemplateOf
    Actions <- MCActions
SPECIFICATION Spec
INVARIANTS
    ConfiguredOrBroken
