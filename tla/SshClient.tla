----------------------------- MODULE SshClient -----------------------------
(***************************************************************************)
(* The ssh and sftp commands (apps/ssh/ssh_client.c, called from           *)
(* user_cmd.c and user_fs_shell.c).  A terminal worker runs one command;   *)
(* a command is one or more operations, an operation opens a connection    *)
(* and a session, calls libssh2 until the call no longer answers EAGAIN,   *)
(* and takes down what it built.  Between two calls the worker pumps: the  *)
(* callbacks of SshTransport run and the other windows execute their       *)
(* commands (task_os).                                                     *)
(*                                                                         *)
(* One file "whole" travels between remote and local names; "part" is a    *)
(* truncated one, "none" no file.  libssh2 and the server are external:    *)
(* a call that has a message of the server may succeed or fail.            *)
(***************************************************************************)
EXTENDS SshTransport

CONSTANTS
    Roots,        \* directories of the server a window may mount
    RemoteNames,  \* names below a root
    Chunks,       \* reads or writes a transfer needs
    Commands,     \* commands given
    MaxCommands,  \* bound: commands
    MaxAhead      \* bound: bytes the server is ahead of libssh2

ASSUME SshAssumption == 
    /\ Chunks \in Nat \ {0} /\ MaxAhead \in Nat /\ "." \in Roots

VARIABLES
    job,      \* the command of the worker
    t,        \* its transport
    sent,     \* bytes the server has sent and libssh2 has not got, the lost ones too
    gap,      \* history: libssh2 got a byte out of order, with t->err set or not
    late,     \* the time limit of the loop has passed
    root,     \* sftp_mount_root
    remote,   \* files of the server
    local,    \* the local file
    given,    \* commands so far
    upset     \* history: the root changed under a command, or a file was moved to itself

vars == <<job, t, sent, gap, late, root, remote, local, given, upset>>

(***************************************************************************)
(* Scripts: where a call leads, what it acquires, what the code gives back *)
(* on the way for certain (drops), and what it frees with one call whose   *)
(* answer it ignores (tries).  A call ends well, fails, or is late.        *)
(***************************************************************************)
Go(to, gets, drops) == [to |-> to, gets |-> gets, drops |-> drops, tries |-> {}]
Try(to, gets, drops, tries) == [Go(to, gets, drops) EXCEPT !.tries = tries]
Row(ok, fail) == [ok |-> ok, fail |-> fail, late |-> fail]
RowLate(ok, fail, over) == [Row(ok, fail) EXCEPT !.late = over]

\* ssh_client_probe
Probe == [connect |-> Row(Go("end", {}, {"transport"}), Go("end", {}, {"transport"}))]

\* ssh_open_authenticated_session, and the same lines of ssh_client_exec_remote
OpenSession ==
    [connect   |-> Row(Go("handshake", {"session"}, {}), Go("end", {}, {"transport"})),
     handshake |-> Row(Go("auth", {}, {}),   Try("end", {}, {"transport"}, {"session"})),
     auth      |-> Row(Go("opened", {}, {}), Try("end", {}, {"transport"}, {"session"}))]

\* ssh_channel_exec_nonblock.  A channel whose opening is late stays with the
\* session; one that was closed first is freed
ChannelExec ==
    [opened        |-> RowLate(Go("channel_exec", {"channel"}, {}), Go("disconnect", {}, {}),
                               Go("disconnect", {"channel"}, {})),
     channel_exec  |-> Row(Go("channel_read", {}, {}),  Try("disconnect", {}, {}, {"channel"})),
     channel_read  |-> Row(Go("channel_close", {}, {}), Try("disconnect", {}, {}, {"channel"})),
     channel_close |-> Row(Go("disconnect", {}, {"channel"}), Go("disconnect", {}, {"channel"}))]

\* a slip: a refused subsystem returns without closing the session
SftpInitReturns(first) == [opened |-> Row(Go(first, {"sftp"}, {}), Go("end", {}, {}))]

\* ssh_sftp_init_nonblock; the operation goes on with its first call.  A server
\* that refuses the subsystem has given a channel, one that refuses the channel not
SftpInit(first) ==
    [opened |-> RowLate(Go(first, {"sftp"}, {}), Try("disconnect", {"channel"}, {}, {"channel"}),
                        Go("disconnect", {"channel"}, {}))]

\* the calls of each operation
SftpLs ==
    [opendir |-> Row(Go("readdir", {"handle"}, {}), Go("shutdown", {}, {})),
     readdir |-> Row(Go("close", {}, {}), Go("close", {}, {}))]
SftpGet ==
    [open |-> Row(Go("read", {"handle"}, {}), Go("shutdown", {}, {})),
     read |-> Row(Go("close", {}, {}), Go("close", {}, {}))]
SftpReadAlloc == SftpGet
SftpPut ==
    [create |-> Row(Go("write", {"handle"}, {}), Go("shutdown", {}, {})),
     write  |-> Row(Go("close", {}, {}), Go("close", {}, {}))]
SftpWriteBytes == SftpPut
SftpUnlink == [unlink |-> Row(Go("shutdown", {}, {}), Go("shutdown", {}, {}))]
SftpRename == [rename |-> Row(Go("shutdown", {}, {}), Go("shutdown", {}, {}))]

\* the done: labels, ssh_sftp_shutdown_nonblock (it repeats the call until the
\* channel is freed) and ssh_close_authenticated_session
Closing ==
    [close      |-> Row(Go("shutdown", {}, {"handle"}), Go("shutdown", {}, {"handle"})),
     shutdown   |-> Row(Go("disconnect", {}, {"sftp"}), Go("disconnect", {}, {"sftp"})),
     disconnect |-> Row(Try("end", {}, {"transport"}, {"session", "channel"}),
                        Try("end", {}, {"transport"}, {"session", "channel"}))]

\* the calls of two parts of an operation
Join(f, g) == [x \in DOMAIN f \cup DOMAIN g |-> IF x \in DOMAIN f THEN f[x] ELSE g[x]]
Session(body) == Join(OpenSession, Join(body, Closing))
Sftp(first, body) == Session(Join(SftpInit(first), body))

Script ==
    [probe  |-> Probe,
     exec   |-> Session(ChannelExec),
     ls     |-> Sftp("opendir", SftpLs),
     get    |-> Sftp("open", SftpGet),
     read   |-> Sftp("open", SftpReadAlloc),
     put    |-> Sftp("create", SftpPut),
     write  |-> Sftp("create", SftpWriteBytes),
     unlink |-> Sftp("unlink", SftpUnlink),
     rename |-> Sftp("rename", SftpRename)]

\* loops that give up after SSH_CONNECT_TIMEOUT_MS, SSH_AUTH_TIMEOUT_MS,
\* SSH_EXEC_TIMEOUT_MS or the second of the disconnect; the others wait as long
\* as the server is silent
Timed == {"connect", "handshake", "auth", "opened", "opendir", "readdir", "channel_exec", "disconnect"}

\* a slip: the handshake loop does not look at the clock
ExpiredUnlessHandshake(phase) == late /\ phase \in Timed \ {"handshake"}

Expired(phase) == late /\ phase \in Timed

(***************************************************************************)
(* Commands.  src and dst are names of the server; the local file has one. *)
(***************************************************************************)
Idle == [cmd |-> "none", op |-> "none", phase |-> "idle", asked |-> FALSE, held |-> {},
         src |-> "", dst |-> "", file |-> "", off |-> 0, buf |-> "none", rc |-> FALSE,
         lost |-> {}]          \* history: what earlier operations left behind

FirstOp == [probe |-> "probe", exec |-> "exec", ls |-> "ls", get |-> "get", cat |-> "read",
            put |-> "put", cp_in |-> "read", cp_over |-> "read",
            mv_in |-> "read", mv_out |-> "put", mv_over |-> "rename"]

ASSUME CommandsAssumption == Commands \subseteq DOMAIN FirstOp

\* the name an operation works on, resolved against the root as it starts
Target(j, op) == IF op \in {"put", "write"} THEN j.dst ELSE j.src

\* what the client has no pointer to when an operation has ended
Lost(j) == j.lost \cup (j.held \ {"buffer"})

\* an operation starts: the buffer it allocates (read, get) or was given, the
\* transport of ssh_connect_transport.  An operation on the server computes its
\* full path now
Begin(j, op) ==
    [j EXCEPT !.op = op, !.phase = "connect", !.asked = FALSE, !.off = 0, !.rc = FALSE,
              !.lost = Lost(j),
              !.held = {"transport"} \cup (IF op \in {"get", "put"} THEN {"buffer"} ELSE {}),
              !.file = <<root, Target(j, op)>>]

\* ssh set and ssh auth have been given (a command without them only reports).
\* Bounds: no command is given after upset, and none names a truncated file as
\* its source (it would replace a whole one, as the user asked)
Command(cmd, src, dst) ==
    /\ job.phase = "idle" /\ ~upset /\ given < MaxCommands
    /\ given' = given + 1
    /\ src # dst => cmd \in {"cp_over", "mv_over"}    \* the others use one of them
    /\ remote[<<root, src>>] # "part" /\ local # "part"
    /\ cmd \in {"put", "mv_out"} => local # "none"     \* load_file_bytes_alloc
    /\ job' = Begin([Idle EXCEPT !.cmd = cmd, !.src = src, !.dst = dst, !.buf = local], FirstOp[cmd])
    /\ t' = NewTransport
    /\ sent' = 0 /\ gap' = "none" /\ late' = FALSE
    /\ upset' = (upset \/ (cmd \in {"mv_over", "cp_over"} /\ src = dst))
    /\ UNCHANGED <<root, remote, local>>

(***************************************************************************)
(* What follows an operation: copy_between_paths and the mv command.       *)
(* stored: store_file_bytes succeeded                                      *)
(***************************************************************************)
\* a slip: the source is removed whether or not the copy was stored
FollowUpAnyway(j, stored) ==
    IF j.cmd = "mv_in" /\ j.op = "read" THEN "unlink" ELSE "none"

FollowUp(j, stored) ==
    CASE j.cmd = "mv_in" /\ j.op = "read" /\ j.rc /\ stored -> "unlink"
      [] j.cmd = "cp_over" /\ j.op = "read" /\ j.rc -> "write"
      [] j.cmd = "mv_over" /\ j.op = "rename" /\ ~j.rc -> "read"
      [] j.cmd = "mv_over" /\ j.op = "read" /\ j.rc -> "write"
      [] j.cmd = "mv_over" /\ j.op = "write" /\ j.rc -> "unlink"
      [] OTHER -> "none"

\* the local file after an operation: sftp get and copies from the server store
\* the buffer, mv to the server removes the source
LocalAfter(j, stored) ==
    IF stored /\ j.rc /\ (j.op = "get" \/ (j.cmd \in {"cp_in", "mv_in"} /\ j.op = "read")) THEN j.buf
    ELSE IF j.cmd = "mv_out" /\ j.rc /\ stored THEN "none" ELSE local

Finish ==
    /\ job.phase = "end"
    /\ \E stored \in BOOLEAN :
        LET next == FollowUp(job, stored)
        IN  /\ local' = LocalAfter(job, stored)
            /\ job' = IF next = "none" THEN [Idle EXCEPT !.lost = Lost(job)]
                                       ELSE Begin(job, next)
            /\ t' = IF next = "none" THEN t ELSE NewTransport
    /\ sent' = 0 /\ gap' = "none" /\ late' = FALSE
    /\ UNCHANGED <<root, remote, given, upset>>

(***************************************************************************)
(* The worker: one round of the loop of a call.                            *)
(***************************************************************************)
\* ssh_transport_destroy clears the callbacks before it closes the connection
Destroy(tr, drops) == IF "transport" \in drops THEN NoTransport ELSE tr

\* the files of the server once it has carried a request out
Carried(j) ==
    CASE j.phase = "unlink" -> [remote EXCEPT ![j.file] = "none"]
      [] j.phase = "rename" /\ remote[j.file] # "none" /\ j.src # j.dst ->
            [remote EXCEPT ![<<j.file[1], j.dst>>] = remote[j.file], ![j.file] = "none"]
      [] j.phase = "create" -> [remote EXCEPT ![j.file] = "part"]
      [] j.phase = "write" /\ j.off + 1 = Chunks -> [remote EXCEPT ![j.file] = j.buf]
      [] OTHER -> remote

\* the answers the server may give to the call of a phase
Answers(phase, j) ==
    CASE phase \in {"read", "readdir", "channel_read"} ->
            (IF j.off < Chunks THEN {"data"} ELSE {"ok"}) \cup {"fail"}
      [] phase = "write" -> (IF j.off < Chunks - 1 THEN {"data"} ELSE {"ok"}) \cup {"fail"}
      [] phase = "open" /\ remote[j.file] = "none" -> {"fail"}
      [] phase \in {"unlink", "rename"} /\ remote[j.file] = "none" -> {"fail"}
      [] OTHER -> {"ok", "fail"}

\* rc = 0 is set by the last step of the body; sftp ls takes a failed readdir
\* for the end of the directory
Succeeds(j, answer) ==
    \/ answer = "ok" /\ j.phase \in {"read", "write", "unlink", "rename", "channel_read", "readdir"}
    \/ answer = "ok" /\ j.op = "probe"
    \/ answer = "fail" /\ j.phase = "readdir"

\* libssh2_channel_free closes the channel first, and libssh2_session_free the
\* channel of the session: each answers EAGAIN and frees nothing when it cannot
\* send or the server's answer has not come.  On a broken connection it frees
Left(go, tr) ==
    LET rest == (job.held \ go.drops) \cup go.gets
    IN  {rest \ go.tries} \cup (IF "channel" \in rest /\ Libssh2Send(tr) # "broken" THEN {rest} ELSE {})

Leave(answer, tr) ==
    LET go == Script[job.op][job.phase][answer]
    IN  /\ job' \in {[job EXCEPT !.phase = go.to, !.asked = FALSE, !.off = 0, !.held = held,
                              !.rc = @ \/ Succeeds(job, answer),
                              !.buf = IF job.phase = "read" /\ answer = "ok"
                                      THEN remote[job.file] ELSE @] : held \in Left(go, tr)}
        /\ t' = Destroy(tr, go.drops)
        /\ late' = (late /\ go.to = "channel_exec")   \* its loop keeps the start of the opening

\* the server answered with more of the file or of the directory
GoOn(tr) ==
    /\ job' = [job EXCEPT !.off = @ + 1, !.asked = FALSE]
    /\ late' = (late /\ job.phase # "readdir")
    /\ t' = tr

\* libssh2 got bytes, and the next byte it expects is number 1 again; a byte out
\* of order fails the call (the MAC of the packet)
Renumbered(tr, last) == [tr EXCEPT !.rx = [i \in 1 .. Len(tr.rx) |-> tr.rx[i] - last]]
Use(got) ==
    /\ sent' = sent - got[Len(got)]
    /\ gap' = IF \A i \in 1 .. Len(got) : got[i] = i THEN gap
              ELSE IF t.err THEN "reported" ELSE "silent"

\* ssh_connect_transport's loop
ConnectRound ==
    /\ job.phase = "connect"
    /\ \/ /\ t.connected /\ ~t.closed /\ ~t.err
          /\ \E answer \in {"ok", "fail"} : Leave(answer, t)    \* libssh2_session_init_ex may fail
       \/ (t.closed \/ t.err) /\ Leave("fail", t)
       \/ late /\ ~t.connected /\ Leave("late", t)
    /\ UNCHANGED <<sent, gap, root, remote, local, given, upset>>

\* a call sends its request first; the disconnect is only sent
SendRound ==
    /\ job.phase \notin {"idle", "end", "connect"} /\ ~job.asked
    /\ LET rc == Libssh2Send(t)
       IN
        \/ /\ rc = "broken" /\ Leave("fail", t)
        \/ /\ rc = "sent" /\ job.phase = "disconnect" /\ Leave("ok", t)
        \/ /\ rc = "sent" /\ job.phase # "disconnect"
           /\ job' = [job EXCEPT !.asked = TRUE]
           /\ \E full \in BOOLEAN : t' = [t EXCEPT !.full = full]
           /\ UNCHANGED late
        \/ /\ rc = "EAGAIN" /\ Expired(job.phase) /\ Leave("late", t)
    /\ UNCHANGED <<sent, gap, root, remote, local, given, upset>>

\* a message of the server has come: libssh2 takes what the transport has
AnswerRound ==
    /\ job.asked
    /\ \E n \in 1 .. RxSize :
        LET r == Libssh2Recv(t, n)
            left == Renumbered(r.t, r.bytes[Len(r.bytes)])
        IN  /\ r.rc = "data"
            /\ Use(r.bytes)
            /\ \E answer \in IF gap' = "none" THEN Answers(job.phase, job) ELSE {"fail"} :
                /\ IF answer = "data" THEN GoOn(left) ELSE Leave(answer, left)
                /\ remote' \in {Carried(job)} \cup (IF answer = "fail" THEN {remote} ELSE {})
    /\ UNCHANGED <<root, local, given, upset>>

\* nothing has come: the call fails on a broken connection, the loop when it is
\* a timed one and its time is over, and otherwise the worker pumps
EmptyRound ==
    /\ job.asked
    /\ LET r == Libssh2Recv(t, RxSize)
       IN  \/ r.rc = "broken" /\ Leave("fail", r.t)
           \/ r.rc = "EAGAIN" /\ Expired(job.phase) /\ Leave("late", r.t)
    /\ remote' \in {remote, Carried(job)}
    /\ UNCHANGED <<sent, gap, root, local, given, upset>>

Worker == ConnectRound \/ SendRound \/ AnswerRound \/ EmptyRound \/ Finish

(***************************************************************************)
(* Callbacks of lwIP, the clock, and the commands of other windows.        *)
(***************************************************************************)
Callback(r) ==
    /\ t' = r
    /\ UNCHANGED <<job, gap, late, root, remote, local, given, upset>>

Connected ==
    t.pcb = "live" /\ ~t.connected /\ ~t.closed /\ Callback(ConnectedCb(t)) /\ UNCHANGED sent

\* a packet of one or two pbufs
Bytes(from, n) == [i \in 1 .. n |-> from + i]
Arrive ==
    /\ t.pcb = "live" /\ t.connected /\ ~t.closed /\ job.asked
    /\ \E chain \in {<<1>>, <<2>>, <<1, 1>>} :
        LET total == IF Len(chain) = 1 THEN chain[1] ELSE chain[1] + chain[2]
            first == Bytes(sent, chain[1])
        IN  /\ sent + total <= MaxAhead
            /\ sent' = sent + total
            /\ Callback(RecvCb(t, IF Len(chain) = 1 THEN <<first>>
                                  ELSE <<first, Bytes(sent + chain[1], chain[2])>>))

Acked == t.pcb = "live" /\ t.full /\ Callback(SentCb(t)) /\ UNCHANGED sent
PeerCloses == t.pcb = "live" /\ t.connected /\ ~t.closed /\ Callback(EofCb(t)) /\ UNCHANGED sent
PeerResets == t.pcb = "live" /\ Callback(ErrCb(t)) /\ UNCHANGED sent

TimePasses ==
    /\ job.phase \in Timed /\ ~late
    /\ late' = TRUE
    /\ UNCHANGED <<job, t, sent, gap, root, remote, local, given, upset>>

\* sftp mount in another window, or ssh set: the names mean other files
Mount(r) ==
    /\ root # r
    /\ root' = r
    /\ upset' = (upset \/ job.phase # "idle")
    /\ UNCHANGED <<job, t, sent, gap, late, remote, local, given>>

Init ==
    /\ job = Idle /\ t = NoTransport
    /\ sent = 0 /\ gap = "none" /\ late = FALSE
    /\ root = "."
    /\ local \in {"none", "whole"}
    /\ \E x \in {root} \X RemoteNames :
        remote = [y \in Roots \X RemoteNames |-> IF y = x /\ local = "none" THEN "whole" ELSE "none"]
    /\ given = 0
    /\ upset = FALSE

Next ==
    \/ Worker
    \/ \E cmd \in Commands, src, dst \in RemoteNames : Command(cmd, src, dst)
    \/ Connected \/ Arrive \/ Acked \/ PeerCloses \/ PeerResets
    \/ TimePasses
    \/ \E r \in Roots : Mount(r)

\* the worker is scheduled again after each pump, and the clock runs; nothing is
\* assumed of the server
Spec == Init /\ [][Next]_vars /\ WF_vars(Worker) /\ WF_vars(TimePasses)

-----------------------------------------------------------------------------
\* libssh2 gets the server's bytes in order and without a hole, whatever the
\* segments and however the two ends of the buffer move, until the buffer has
\* overflowed and t->err is set (ssh_transport_trim, ssh_altcp_recv_cb)
StreamInOrder == gap # "silent"

\* an operation that has ended holds nothing, whichever call failed or timed out:
\* the transport, the SFTP session, its handle and the buffer always go, and the
\* channel and the session of an operation that returns 0.  An operation that
\* fails may lose the channel it could not close, and then its session with it
NothingHeld ==
    /\ job.phase \in {"idle", "end"} => t = NoTransport
    /\ job.phase = "end" /\ job.rc => job.held \subseteq {"buffer"}
    /\ job.phase = "idle" => job.held = {}
    /\ job.phase = "end" => job.held \ {"buffer"} \in {{}, {"session", "channel"}}
    /\ job.lost \in {{}, {"session", "channel"}}

\* cp, mv, get and put never lose the file, wherever the connection breaks: the
\* source goes only when the copy is complete (unless a file is moved to itself
\* or another window changes the root during the command)
FileNeverLost ==
    upset \/ local = "whole" \/ \E x \in DOMAIN remote : remote[x] = "whole"

\* calls with a time limit end although the server is silent: the command gets to
\* a loop without one, or returns
TimedCallsEnd == (job.phase \in Timed) ~> (job.phase \notin Timed)

=============================================================================
