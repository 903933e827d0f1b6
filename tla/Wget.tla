-------------------------------- MODULE Wget --------------------------------
(***************************************************************************)
(* The HTTP client of apps/net/wget/user_wget.c: one job, its connection,  *)
(* the name lookup, and the state machine that stores a body in a file.    *)
(* The operators here are the functions of that file on a record n of the  *)
(* fields the callbacks share:                                             *)
(*   job    wget_job                                                       *)
(*   save   wget_save                                                      *)
(*   conns  connections whose callbacks are armed, by number               *)
(*   asked  lookups under way in the resolver, by the request that asked   *)
(*   ns     the browser window (module Browser)                            *)
(*   next   number of the next request                                     *)
(* A function whose outcome depends on lwIP returns the set of outcomes.   *)
(*                                                                         *)
(* Requests are numbered; a connection has the number of its request.      *)
(* Bodies are counted in units of one packet, which is also one disk block *)
(* (FS_DATA_PAYLOAD); a body is the sequence of the connections its units  *)
(* came from, so that a mixture can be told.                               *)
(***************************************************************************)
EXTENDS Integers, Sequences, FiniteSets

CONSTANTS
    Terminals,          \* terminal windows
    Browser,            \* the browser window
    Hosts,              \* how hosts are given: a subset of {"ip", "name"}
    Responses,          \* what a server may answer
    MaxRequests,        \* bound: requests
    WGET_MAX_FILE_SIZE  \* units in wget_file_buf

ASSUME WgetAssumption ==
    /\ Browser \notin Terminals
    /\ Hosts \subseteq {"ip", "name"}
    /\ MaxRequests \in Nat /\ WGET_MAX_FILE_SIZE \in Nat

NoOwner == "nobody"

\* wget_reset_job; resolve is "no", "wanted" (resolve_pending) or "asked"
\* (resolve_in_progress too); addr is the request whose lookup gave the address.
\* History: orphans, callbacks of earlier requests were armed when this one was
\* queued; sent, units its own connection has brought
EmptyJob ==
    [id |-> 0, pending |-> FALSE, active |-> FALSE, done |-> FALSE, success |-> FALSE,
     stage |-> "IDLE", late |-> FALSE, resolve |-> "no", addr |-> 0, pcb |-> 0,
     header_done |-> FALSE, status |-> FALSE, clen |-> -1, body |-> <<>>,
     kind |-> "file", owner |-> NoOwner, save |-> FALSE,
     orphans |-> FALSE, sent |-> 0]

\* hdr: the header so far; sent: units of the body so far; resp: the answer,
\* chosen with the header
NoResponse == [ok |-> FALSE, len |-> 0, clen |-> FALSE, img |-> "none"]
NewConn == [open |-> FALSE, hdr |-> "none", sent |-> 0, resp |-> NoResponse]

\* flushed: units a reader of the chain finds.  History: clash, another request
\* was queued during the save; disturbed, another task resolved a path; full,
\* balloc had no block for a unit
NoSave ==
    [active |-> FALSE, failed |-> FALSE, written |-> <<>>, flushed |-> 0, first |-> FALSE,
     pending |-> FALSE, phase |-> 0, clash |-> FALSE, disturbed |-> FALSE, full |-> FALSE]

\* wget_finish(0, ...): the owner is not called
FinishFailed(n) ==
    [n EXCEPT !.job.success = FALSE, !.job.done = TRUE, !.job.active = FALSE, !.job.stage = "IDLE",
              !.ns.upset = @ \/ n.job.owner = Browser]

Without(conns, c) == [d \in DOMAIN conns \ {c} |-> conns[d]]

\* wget_close_pcb: the callbacks are disarmed, then the connection goes
ClosePcb(n) ==
    [n EXCEPT !.job.pcb = 0, !.conns = Without(@, n.job.pcb)]

\* wget_start_with_addr: lwIP may have no pcb, refuse to connect, or connect
StartWithAddr(n) ==
    IF n.job.active THEN {n}
    ELSE LET on == [n EXCEPT !.job.active = TRUE, !.job.stage = "CONNECT", !.job.late = FALSE]
             c  == n.job.id
         IN  {FinishFailed(on)}
             \cup {[on EXCEPT !.job.pcb = c,
                              !.conns = [d \in DOMAIN @ \cup {c} |-> IF d = c THEN NewConn ELSE @[d]]]}

\* wget_kick_if_needed: the resolver answers at once, later, or refuses
Kick(n) ==
    LET taken == [n EXCEPT !.job.pending = FALSE]
        known == [taken EXCEPT !.job.resolve = "no", !.job.addr = n.job.id, !.job.stage = "CONNECT"]
    IN  IF ~n.job.pending \/ n.job.active \/ n.job.resolve = "asked" THEN {n}
        ELSE IF n.job.resolve = "wanted"
        THEN {[n EXCEPT !.job.resolve = "asked", !.job.stage = "DNS", !.asked = @ \cup {n.job.id}]}
             \cup StartWithAddr(known)
             \cup {FinishFailed([taken EXCEPT !.job.resolve = "no"])}
        ELSE IF n.job.addr = 0 THEN {FinishFailed(taken)}
        ELSE StartWithAddr(taken)

\* wget_queue_request_ex: whatever job there was is forgotten, its connection
\* stays with its callbacks armed
QueueRequest(n, host, kind, owner, save) ==
    LET id == n.next IN
    Kick([n EXCEPT
        !.next = id + 1,
        !.save.clash = n.save.active,
        !.job = [EmptyJob EXCEPT !.id = id, !.pending = TRUE, !.kind = kind, !.owner = owner,
                                 !.save = save,
                                 !.resolve = IF host = "ip" THEN "no" ELSE "wanted",
                                 !.addr = IF host = "ip" THEN id ELSE 0,
                                 !.stage = IF host = "ip" THEN "IDLE" ELSE "DNS",
                                 !.orphans = DOMAIN n.conns # {} \/ n.asked # {}]])

\* wget_dns_found_cb for the lookup request g asked for: it looks at no name
DnsFound(n, g, found) ==
    LET back == [n EXCEPT !.asked = @ \ {g},
                          !.job.resolve = IF @ = "asked" THEN "wanted" ELSE @]
    IN  IF ~n.job.pending \/ n.job.done THEN back
        ELSE IF found THEN [back EXCEPT !.job.resolve = "no", !.job.addr = g]
        ELSE FinishFailed([back EXCEPT !.job.resolve = "no", !.job.pending = FALSE])

\* wget_timeout_step once the job's waiting time is over
Waiting(n) ==
    /\ ~n.job.done
    /\ n.job.resolve # "no" \/ (n.job.active /\ n.job.stage = "CONNECT")

TimeoutStep(n) ==
    IF n.job.resolve # "no"
    THEN FinishFailed([n EXCEPT !.job.resolve = "no", !.job.pending = FALSE])
    ELSE FinishFailed(ClosePcb(n))

-----------------------------------------------------------------------------
(* Saving: wget_save_begin and wget_save_step.  `dir' is the entry of the  *)
(* file's name in the target directory: "gone" (no such directory), "dir", *)
(* "full" (no entry and no free slot), "none" or "file".                   *)

SaveBegin(save, dir) ==
    IF dir = "gone" THEN [save EXCEPT !.failed = TRUE]
    ELSE [NoSave EXCEPT !.active = TRUE, !.failed = dir \in {"dir", "full"}]

SaveBlockLoses(save, job, room) ==
    [save EXCEPT !.first = TRUE, !.pending = TRUE, !.full = @ \/ ~room,
                 !.written = Append(@, IF Len(@) < Len(job.body) THEN job.body[Len(@) + 1] ELSE 0)]

Flushed(save) == IF save.pending /\ ~save.full THEN save.flushed + 1 ELSE save.flushed

\* the block whose unit comes next; it is written when its successor is known.
\* Without room balloc returns 0, which the code takes for a block: the chain
\* ends in front of it
SaveBlock(save, job, room) ==
    [save EXCEPT !.first = TRUE, !.pending = TRUE, !.full = @ \/ ~room,
                 !.flushed = Flushed(save),
                 !.written = Append(@, IF Len(@) < Len(job.body) THEN job.body[Len(@) + 1] ELSE 0)]

\* available is body_len - written, modulo 2^32
SaveAvailable(save, job) == Len(save.written) # Len(job.body)

\* the step's new save, whether it returned 1, and whether it wrote the entry
SaveStep(save, job, room) ==
    LET s1 == IF SaveAvailable(save, job) THEN SaveBlock(save, job, room)
              ELSE IF job.body = <<>> THEN [save EXCEPT !.first = TRUE] ELSE save
        s2 == IF s1.pending /\ s1.phase = 0
              THEN [s1 EXCEPT !.pending = FALSE, !.flushed = Flushed(s1), !.phase = 1] ELSE s1
    IN  IF SaveAvailable(s1, job) THEN [save |-> s1, over |-> FALSE, entry |-> FALSE]
        ELSE IF s2.phase = 1
        THEN [save |-> [s2 EXCEPT !.phase = 2], over |-> FALSE, entry |-> TRUE]
        ELSE [save |-> [s2 EXCEPT !.active = FALSE], over |-> TRUE, entry |-> FALSE]

=============================================================================
