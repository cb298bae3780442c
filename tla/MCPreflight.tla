---------------------------- MODULE MCPreflight ----------------------------
(* Instances of Preflight: one tool whose manifest changes, an LLM's call  *)
(* with a consent that ends and an API call through another service.       *)
EXTENDS Preflight

CONSTANTS t1, c1, c2

Data == "/data"
DataFile == "/data/x"
DataRelative == "data"
Host == "localhost"
SubHost == "api.localhost"

TheNames == {Data, DataFile, DataRelative, Host, SubHost}
NormalOf == [n \in TheNames |-> IF n = DataRelative THEN Data ELSE n]
ExtendsOf == {<<n, n>> : n \in TheNames} \cup {<<Data, DataFile>>, <<Host, SubHost>>}

Decl(domain, action, resource) == [domain |-> domain, action |-> action, resource |-> resource]
Limit == [bytesIn |-> 1, bytesOut |-> 2, files |-> 1, depth |-> 1, timeout |-> 5]

\* Every executor; the default sandbox has none for writes.
TheExecutors == Box!DefaultExecutors \cup {"write"}

ThePrivate == {Host}

\* One file, longer than may be read at once.
TheFiles == [n \in TheNames |-> IF n = DataFile THEN 2 ELSE None]

Reader ==
    [id |-> t1, wellFormed |-> TRUE, safety |-> "low", effect |-> "read", consents |-> TRUE,
     maxTTL |-> None, scopes |-> {"read"}, decls |-> {Decl("fs", "read", Data)},
     keyed |-> FALSE, deprecated |-> FALSE, limits |-> Limit]

\* High safety class: reads and writes files, with consent.
Writer == [Reader EXCEPT !.safety = "high", !.effect = "write", !.maxTTL = 1,
                         !.scopes = {"read", "write"},
                         !.decls = {Decl("fs", "read", Data), Decl("fs", "write", Data)}]

\* Posts to a host; consent is left to the sandbox.
Poster == [Reader EXCEPT !.safety = "medium", !.effect = "network", !.keyed = TRUE,
                         !.consents = FALSE,
                         !.decls = {Decl("net.http", "POST", Host), Decl("tmp", "use", Data)}]

\* A relative path is no prefix of its normal form: the guard refuses it.
Relative == [Reader EXCEPT !.consents = FALSE, !.decls = {Decl("fs", "read", DataRelative)}]

\* Has a capability and no operation.
Lister == [Reader EXCEPT !.consents = FALSE, !.decls = {Decl("fs", "list", Data)}]

\* Gets from a host, without consent.
Getter == [Reader EXCEPT !.effect = "network", !.consents = FALSE,
                         !.decls = {Decl("net.http", "GET", Host)}]

\* Manifests that validate refuses.
Unconsented == [Writer EXCEPT !.consents = FALSE]
Unscoped == [Writer EXCEPT !.scopes = {"read"}]

TheManifests == {Reader, Writer, Poster, Getter, Relative, Lister, Unconsented, Unscoped}

FileArgs == [url |-> SubHost, path |-> DataFile, content |-> 2, body |-> 1, size |-> None,
             offset |-> 0, len |-> None, overwrite |-> TRUE]

TheCalls ==
    [c \in Calls |->
        IF c = c1
        THEN [tool |-> t1, origin |-> "llm", keyed |-> TRUE, valid |-> TRUE, args |-> FileArgs,
              consent |-> [scopes |-> {"read", "write"}, expires |-> 1]]
        ELSE [tool |-> t1, origin |-> "api", keyed |-> FALSE, valid |-> TRUE,
              args |-> [FileArgs EXCEPT !.offset = 1, !.url = Host],
              consent |-> [scopes |-> {"read"}, expires |-> 0]]]

TheConfigs == [c \in Calls |-> IF c = c1 THEN "f1" ELSE None]
============================================================================
