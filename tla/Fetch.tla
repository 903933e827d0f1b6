------------------------------- MODULE Fetch -------------------------------
(***************************************************************************)
(* Everything that fetches: network_task of user.c runs the client of      *)
(* module Wget and polls the network card; terminals start downloads and   *)
(* interrupt them; the browser starts requests from the GUI task and from  *)
(* inside the client's callbacks.  The FPGA profile: tasks give up the CPU *)
(* only in task_os, so an action is one round of network_task, one command *)
(* or one input event.                                                     *)
(***************************************************************************)
EXTENDS Browser

CONSTANTS
    MaxDownloads,   \* bound: requests of terminals come before this number
    MaxConnections, \* bound: connections at a time
    Directory       \* what the name may be in the target directory: see SaveBegin

VARIABLES
    job, save, conns, asked, ns, next,  \* as in module Wget
    win,        \* the terminal windows
    file        \* contents of the target file: the connections its units came from

netVars == <<job, save, conns, asked, ns, next>>
vars == <<netVars, win, file>>

Net == [job |-> job, save |-> save, conns |-> conns, asked |-> asked, ns |-> ns, next |-> next]

Become(outcomes) ==
    \E m \in outcomes :
        /\ job' = m.job /\ save' = m.save /\ conns' = m.conns
        /\ asked' = m.asked /\ ns' = m.ns /\ next' = m.next

NewWindow == [open |-> TRUE, waiting |-> FALSE, cancel |-> FALSE]

\* the browser may show a page already: the one request 1 brought
PageShown == [EmptyNs EXCEPT !.ready = TRUE, !.has = TRUE, !.img = 1, !.map = 1]

Init ==
    /\ job = EmptyJob /\ save = NoSave /\ conns = <<>> /\ asked = {} /\ next = 2
    /\ ns \in {EmptyNs, PageShown}
    /\ win = [t \in Terminals |-> NewWindow]
    /\ file = <<>>

-----------------------------------------------------------------------------
(* What a received frame does.                                             *)

\* wget_finish: the owner is told after the job has been put in order; a
\* browser's callbacks may queue the next request
Finish(n) ==
    LET m == [n EXCEPT !.job.success = TRUE, !.job.done = TRUE, !.job.active = FALSE, !.job.stage = "IDLE"]
    IN  CASE n.job.kind = "page"  -> CompleteData(m)
          [] n.job.kind = "image" -> UNION { ReceiveImage(m, decodes) : decodes \in BOOLEAN }
          [] OTHER                -> {m}

\* the rest of a packet behind the header
Body(n, c) ==
    IF Len(n.job.body) + 1 > WGET_MAX_FILE_SIZE THEN {FinishFailed(ClosePcb(n))}
    ELSE LET m == [n EXCEPT !.job.body = Append(@, c)]
         IN  IF m.job.clen >= 0 /\ Len(m.job.body) >= m.job.clen THEN Finish(ClosePcb(m)) ELSE {m}

AfterHeaderDrops(n, c, u) == {n}

AfterHeader(n, c, u) == IF u = 1 THEN Body(n, c) ELSE {n}

\* a page goes to the parser as it arrives; the end of the header is only
\* seen when it lies inside one packet
Feed(n, c, h, u) ==
    LET m == IF h = "end" THEN [n EXCEPT !.job.header_done = TRUE] ELSE n
    IN  IF ~(n.job.active /\ n.job.kind = "page") \/ ~m.job.header_done THEN n
        ELSE IF u = 1 THEN FeedData(m, c) ELSE m

\* the status line and Content-Length of a complete header
HeaderParsed(n, resp) ==
    [n EXCEPT !.job.header_done = TRUE, !.job.status = resp.ok,
              !.job.clen = IF resp.clen THEN resp.len ELSE -1]

\* wget_recv_cb for a packet of connection c: header part h ("none", "part",
\* "end", "straddle": the end in two packets) and u units of the body
Recv(n0, c, h, u, resp) ==
    LET n == [n0 EXCEPT !.conns[c].resp = resp]
        m == [Feed(n, c, h, u) EXCEPT !.conns[c].sent = @ + u,
                                      !.conns[c].hdr = IF h = "part" THEN "part" ELSE "sent",
                                      !.job.sent = IF c = n.job.id THEN @ + u ELSE @]
    IN  CASE m.job.done -> {m}
          [] ~m.job.done /\ m.job.header_done -> Body(m, c)
          [] ~m.job.done /\ ~m.job.header_done /\ h \in {"end", "straddle"} ->
                AfterHeader(HeaderParsed(m, resp), c, u)
          [] OTHER -> {m, FinishFailed(ClosePcb(m))}      \* the header buffer may be full

\* wget_recv_cb when the server closes connection c
Closed(n, c) ==
    LET m == ClosePcb([n EXCEPT !.conns = Without(@, c)])
    IN  IF ~n.job.header_done \/ (n.job.kind # "page" /\ ~n.job.status) THEN {FinishFailed(m)}
        ELSE Finish(m)

\* wget_err_cb
Err(n, c) ==
    LET m == [n EXCEPT !.conns = Without(@, c), !.job.pcb = 0]
    IN  IF n.job.done THEN m ELSE FinishFailed(m)

\* wget_connected_cb
Connected(n, c) == [n EXCEPT !.conns[c].open = TRUE, !.job.stage = "RECV"]

\* the packets that may come next: header part, units and answer
MayCome(conn, h, u, resp) ==
    CASE h = "none"     -> conn.hdr = "sent" /\ u = 1 /\ conn.sent < resp.len /\ resp = conn.resp
      [] h = "part"     -> conn.hdr = "none" /\ u = 0 /\ resp = conn.resp
      [] h = "end"      -> conn.hdr # "sent" /\ u <= resp.len /\ resp # NoResponse
      [] h = "straddle" -> conn.hdr = "part" /\ u <= resp.len /\ resp # NoResponse

Packets(conn) ==
    { p \in {"none", "part", "end", "straddle"} \X {0, 1} \X (Responses \cup {NoResponse}) :
        MayCome(conn, p[1], p[2], p[3]) }

FrameOutcomes(n) ==
    LET opened == { c \in DOMAIN n.conns : n.conns[c].open } IN
    { DnsFound(n, g, found) : g \in n.asked, found \in BOOLEAN }
    \cup { Connected(n, c) : c \in DOMAIN n.conns \ opened }
    \cup (UNION { (UNION { Recv(n, c, p[1], p[2], p[3]) : p \in Packets(n.conns[c]) }) \cup Closed(n, c) :
                   c \in opened })
    \cup { Err(n, c) : c \in DOMAIN n.conns }

-----------------------------------------------------------------------------
(* One round of network_task: the first of these that applies.              *)

CancelDue ==
    /\ job.owner \in Terminals
    /\ win[job.owner].waiting /\ win[job.owner].cancel
    /\ job.pending \/ job.active

KickDue == job.pending /\ ~job.active

TimeoutDue == Waiting(Net) /\ job.late

Cancel ==
    /\ CancelDue
    /\ win' = [win EXCEPT ![job.owner].cancel = FALSE]
    /\ Become({FinishFailed(ClosePcb(Net))})
    /\ UNCHANGED file

NetworkKick ==
    /\ ~CancelDue /\ KickDue
    /\ Become(Kick(Net))
    /\ UNCHANGED <<win, file>>

Timeout ==
    /\ ~CancelDue /\ ~KickDue /\ TimeoutDue
    /\ Become({TimeoutStep(Net)})
    /\ UNCHANGED <<win, file>>

Receive ==
    /\ ~CancelDue /\ ~KickDue /\ ~TimeoutDue
    /\ Become(FrameOutcomes(Net))
    /\ UNCHANGED <<win, file>>

TellKeepsWaiting(t) == win

\* the terminal gets a line with the outcome, and its prompt back
Tell(t) == [win EXCEPT ![t].waiting = FALSE]

Listening == job.owner \in Terminals /\ win[job.owner].open

\* a round without frames that stores a block, or begins to
SaveRound ==
    /\ ~CancelDue /\ ~KickDue /\ ~TimeoutDue
    /\ job.save /\ job.success /\ job.done
    /\ Len(save.written) <= WGET_MAX_FILE_SIZE      \* bound
    /\ \E room \in BOOLEAN, begun \in IF save.active THEN {save} ELSE { SaveBegin(save, dir) : dir \in Directory } :
         LET result == IF begun.failed \/ ~begun.active
                       THEN [save |-> begun, over |-> TRUE, entry |-> FALSE]
                       ELSE SaveStep(begun, job, room)
         IN  /\ save' = IF result.save.active \/ result.save.failed THEN result.save ELSE NoSave     \* not read again
             /\ job' = [job EXCEPT !.save = ~result.over]
             /\ win' = IF result.over /\ Listening THEN Tell(job.owner) ELSE win
             /\ file' = IF result.entry /\ ~result.save.disturbed
                        THEN SubSeq(result.save.written, 1, result.save.flushed) ELSE file
    /\ UNCHANGED <<conns, asked, ns, next>>

\* a round that reports a failed download
Report ==
    /\ ~CancelDue /\ ~KickDue /\ ~TimeoutDue
    /\ job.done /\ job.save /\ ~job.success /\ Listening
    /\ job' = [job EXCEPT !.save = FALSE]
    /\ win' = Tell(job.owner)
    /\ UNCHANGED <<save, conns, asked, ns, next, file>>

\* what network_task does of its own accord, without a frame
OwnRound == Cancel \/ NetworkKick \/ Timeout \/ SaveRound \/ Report

NetworkTask == OwnRound \/ Receive

\* sys_check_timeouts, at the end of every round: lwIP may give up on a lookup
\* or a connection
Timers ==
    /\ Become({ DnsFound(Net, g, FALSE) : g \in asked } \cup { Err(Net, c) : c \in DOMAIN conns })
    /\ UNCHANGED <<win, file>>

TimePasses ==
    /\ Waiting(Net) /\ ~job.late
    /\ job' = [job EXCEPT !.late = TRUE]
    /\ UNCHANGED <<save, conns, asked, ns, next, win, file>>

-----------------------------------------------------------------------------
(* Terminals.                                                               *)

\* the wget command; run_command drops a command when an old Ctrl-C is left
WgetCommand(t) ==
    /\ win[t].open /\ ~win[t].waiting
    /\ \/ /\ win[t].cancel
          /\ win' = [win EXCEPT ![t].cancel = FALSE]
          /\ UNCHANGED netVars
       \/ /\ ~win[t].cancel /\ ~job.active /\ ~job.pending /\ next <= MaxDownloads
          /\ \E host \in Hosts :
                Become({ [m EXCEPT !.job.save = TRUE, !.job.owner = t] :
                         m \in QueueRequest(Net, host, "file", NoOwner, TRUE) })
          /\ win' = [win EXCEPT ![t].waiting = TRUE]
    /\ UNCHANGED file

CtrlC(t) ==
    /\ win[t].open /\ win[t].waiting /\ ~win[t].cancel
    /\ win' = [win EXCEPT ![t].cancel = TRUE]
    /\ UNCHANGED <<netVars, file>>

CloseWindow(t) ==
    /\ win[t].open
    /\ win' = [win EXCEPT ![t].open = FALSE]
    /\ UNCHANGED <<netVars, file>>

OpenWindow(t) ==
    /\ ~win[t].open
    /\ win' = [win EXCEPT ![t] = NewWindow]
    /\ UNCHANGED <<netVars, file>>

\* ethstat polls the card as well
Ethstat ==
    /\ Become(FrameOutcomes(Net))
    /\ UNCHANGED <<win, file>>

\* another task resolves a path in fs_tmp_window while a download is stored
ResolvePath ==
    /\ save.active /\ ~save.disturbed
    /\ save' = [save EXCEPT !.disturbed = TRUE]
    /\ UNCHANGED <<job, conns, asked, ns, next, win, file>>

-----------------------------------------------------------------------------
(* The browser's window, from the GUI task.                                 *)

Upset(n) == [n EXCEPT !.ns.upset = @ \/ n.job.active \/ n.job.pending]

Navigate ==
    /\ next <= MaxRequests /\ Cardinality(DOMAIN conns) < MaxConnections
    /\ Become(DocumentNavigation(Upset(Net)))
    /\ UNCHANGED <<win, file>>

\* a click on a control of the page, or the view after a resize
SubmitOrRefresh ==
    /\ next <= MaxRequests /\ Cardinality(DOMAIN conns) < MaxConnections
    /\ Become(Reload(Upset(Net)))
    /\ UNCHANGED <<win, file>>

\* netsurf_render_frame pumps the queue
Render ==
    /\ next <= MaxRequests
    /\ Become(ProcessQueued(Net))
    /\ UNCHANGED <<win, file>>

\* a key, the wheel, or a click on the image
Act ==
    /\ next <= MaxRequests /\ ns.ready
    /\ \E target \in {0, IF ns.map # 0 THEN ns.map ELSE ns.img} :
          Become(ProcessQueued([Net EXCEPT !.ns = Enqueue(@, target)]))
    /\ UNCHANGED <<win, file>>

Next ==
    \/ NetworkTask \/ Timers \/ TimePasses
    \/ \E t \in Terminals : WgetCommand(t) \/ CtrlC(t) \/ CloseWindow(t) \/ OpenWindow(t)
    \/ Ethstat \/ ResolvePath
    \/ Navigate \/ SubmitOrRefresh \/ Render \/ Act

\* network_task runs again and again, rounds without a frame included, and time
\* passes; nobody presses Ctrl-C before every single round.  No server, resolver
\* or frame is relied on: Receive and Timers have no fairness
Spec == Init /\ [][Next]_vars /\ WF_vars(OwnRound) /\ WF_vars(TimePasses) /\ SF_vars(NetworkKick)

-----------------------------------------------------------------------------
(* Properties.                                                              *)

\* A body that was received without another connection in the way is, unit for
\* unit, what the server sent: wherever the header ends in a packet, whether
\* the length or the close ends it.
BodyWhole ==
    job.done /\ job.success /\ job.kind # "page" /\ ~job.orphans =>
        job.body = [i \in 1 .. job.sent |-> job.id]

\* A save that ends without failure, which the terminal sees as "Downloaded.",
\* leaves the body in the file, if there is one, the disk had room for it, no
\* other download was queued during the save and no other task resolved a path.
DownloadedMeansSaved ==
    [][ /\ job.save /\ ~job'.save /\ job.success /\ ~save'.failed /\ job'.id = job.id
        /\ job.body # <<>> /\ ~save.clash /\ ~save.disturbed /\ ~save.full
        => file' = job.body ]_vars

\* A queued action leaves the browser only when none of its pages or images is
\* under way, and no two go to the same map: unless an earlier page was overtaken
\* by another navigation, did not arrive, or brought no map while actions waited.
ActionsGated == ns.hasty => ns.upset

\* A download whose address is known, or that is over and not to be started any
\* more, gives the terminal its prompt back, unless the window is closed, a later
\* request takes the job, or the save got mixed with another one.  Once connected
\* there is no time limit (wget_timeout_step): a server that stays silent keeps
\* the request in RECV.
AddressRequestEnds ==
    \A t \in Terminals :
        (win[t].waiting /\ job.owner = t /\ (job.addr # 0 \/ (job.done /\ ~job.pending))) ~>
            (\/ ~win[t].waiting \/ ~win[t].open \/ job.owner # t \/ save.clash
             \/ job.stage = "RECV" /\ ~job.done)

=============================================================================
