-------------------------- MODULE ConfigValidation --------------------------
(***************************************************************************)
(* ValidateConfigs (pkg/resources/resources_manager.go), and the names     *)
(* that a resource server and its CDI spec derive from a configuration.    *)
(*                                                                         *)
(* A configuration is a record of the fields name, prefix, rdmaHcaMax,     *)
(* selectors and devices.  Of the selectors it only matters which values   *)
(* they list, so they are one set; devices is the deprecated list of       *)
(* interface names.                                                        *)
(***************************************************************************)
EXTENDS Integers, Sequences

CONSTANTS
    Names,          \* strings given as resource names
    Prefixes,       \* strings given as prefixes
    Values,         \* elements of selectors
    ValidNames,     \* the resource names that the regular expression accepts
    NoPrefix,       \* the empty resourcePrefix
    DefaultPrefix   \* rm.defaultResourcePrefix

ASSUME PrefixAssumption ==
    {NoPrefix, DefaultPrefix} \subseteq Prefixes /\ NoPrefix # DefaultPrefix

UserConfig ==
    [name : Names, prefix : Prefixes, rdmaHcaMax : Int,
     selectors : SUBSET Values, devices : SUBSET Values]

\* Variant of Unique: the scope of a name is its prefix.
UniqueInPrefix(list, k) ==
    \A l \in 1..k - 1 :
        list[l].name # list[k].name \/ list[l].prefix # list[k].prefix

\* Name k is not in the map that the names before it were put in.
Unique(list, k) == \A l \in 1..k - 1 : list[l].name # list[k].name

IsEmptySelector(selectors) == selectors = {}

\* Exactly one of "selectors" and "devices" is given.
OneSelection(conf) == IsEmptySelector(conf.selectors) # (conf.devices = {})

ValidateConfigs(list, periodicUpdateInterval) ==
    /\ periodicUpdateInterval >= 0
    /\ list # <<>>
    /\ \A k \in DOMAIN list :
           /\ list[k].name \in ValidNames
           /\ Unique(list, k)
           /\ list[k].rdmaHcaMax >= 0
           /\ OneSelection(list[k])

\* What ValidateConfigs leaves in a configuration it accepts.
Normalized(conf) ==
    [conf EXCEPT
        !.prefix = IF conf.prefix = NoPrefix THEN DefaultPrefix ELSE conf.prefix,
        !.selectors = IF IsEmptySelector(@) THEN conf.devices ELSE @]

\* newResourceServer's own checks.
CanMake(conf) == conf.rdmaHcaMax >= 0 /\ conf.prefix # NoPrefix

\* Neither the socket nor the CDI spec carries the prefix of the resource.
socketName(conf) == <<conf.name, "sock">>
SpecFile(conf) == <<"nvidia.com", conf.name>>

==============================================================================
