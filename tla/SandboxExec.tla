----------------------------- MODULE SandboxExec -----------------------------
(***************************************************************************)
(* The executors of sb-sandbox a planned operation can reach (files,       *)
(* requests, temporary space), and the limits the sandbox compares their   *)
(* usage with once they are done.  Pure definitions.                       *)
(*                                                                         *)
(* A disk gives the size of every file, or None.  Execute is the set of    *)
(* outcomes: whether the operation succeeded, what it used and the disk it *)
(* leaves.  The operating system may fail any file operation; NetExecutor  *)
(* answers requests itself.  Encodings are data.                           *)
(***************************************************************************)
EXTENDS SandboxProfile

CONSTANT Private    \* hosts that are localhost or a private address

Usage(read, sent, files) == [bytesIn |-> read, bytesOut |-> sent, files |-> files]

Success(usage, disk) == [ok |-> TRUE, usage |-> usage, disk |-> disk]

\* A failure reports no usage, whatever it has done.
Failure(disk) == [ok |-> FALSE, usage |-> Usage(0, 0, 0), disk |-> disk]

Exceeds(n, limit) == limit # None /\ n > limit

\* At most the limit is read, of a file of any size.
ReadFile(profile, o, disk) ==
    LET size == disk[o.target]
        rest == IF size > o.offset THEN size - o.offset ELSE 0
        most == MinOption(rest, MinOption(o.len, profile.limits.bytesIn))
    IN  {Failure(disk)} \cup
        (IF size = None THEN {} ELSE {Success(Usage(most, 0, 0), disk)})

\* The file is emptied and then written: an error in between leaves a part.
WriteFile(profile, o, disk) ==
    LET Holds(n) == [disk EXCEPT ![o.target] = n]
        refused  == \/ Exceeds(o.size, profile.limits.bytesOut)
                    \/ profile.limits.files = 0
                    \/ disk[o.target] # None /\ ~ o.overwrite
    IN  {Failure(disk)} \cup
        (IF refused THEN {}
         ELSE {Failure(Holds(n)) : n \in 0..(o.size - 1)} \cup
              {Success(Usage(0, o.size, 1), Holds(o.size))})

\* ensure_domain_allowed
HostAllowed(profile, host) == host \notin Private /\ DomainAllowed(profile, host)

\* ensure_method_allowed
MethodAllowed(profile, method) ==
    profile.whitelists.methods # {} => method \in profile.whitelists.methods

\* execute_http
Request(profile, o, disk) ==
    IF /\ HostAllowed(profile, o.target)
       /\ MethodAllowed(profile, o.action)
       /\ ~ Exceeds(o.size, profile.limits.bytesOut)
       /\ profile.limits.bytesIn # 0
    THEN {Success(Usage(0, o.size, 0), disk)}
    ELSE {Failure(disk)}

\* Without a directory for temporary files, which preflight never maps, nothing
\* is created.
AllocateTmp(profile, o, disk) ==
    IF Exceeds(o.size, profile.limits.bytesOut) THEN {Failure(disk)}
    ELSE {Success(Usage(0, o.size, 0), disk)}

\* The kind of capability whose executor is called.
Kind(o) == IF o.domain = "fs" THEN o.action ELSE o.domain

\* What default_sandbox_with_executors registers: none that writes files.
DefaultExecutors == {"net.http", "read", "tmp"}

Execute(profile, o, disk) ==
    CASE Kind(o) = "read"     -> ReadFile(profile, o, disk)
      [] Kind(o) = "write"    -> WriteFile(profile, o, disk)
      [] Kind(o) = "net.http" -> Request(profile, o, disk)
      [] Kind(o) = "tmp"      -> AllocateTmp(profile, o, disk)

\* ensure_usage_within_limits, after the executor has run.
WithinLimits(profile, usage) ==
    /\ ~ Exceeds(usage.bytesIn, profile.limits.bytesIn)
    /\ ~ Exceeds(usage.bytesOut, profile.limits.bytesOut)
    /\ ~ Exceeds(usage.files, profile.limits.files)
============================================================================
