-------------------------- MODULE SshClientProofs --------------------------
(***************************************************************************)
(* What the ssh and sftp commands promise, for every buffer size, set of   *)
(* names, length of a file and number of commands.                         *)
(*                                                                         *)
(* HoldInv    what is held follows from the call the worker is in, up to   *)
(*            a channel that could not be closed: every row of a script,   *)
(*            taken on success, on failure or late, makes up the           *)
(*            difference between the call it leaves and the one it goes    *)
(*            to (TableOk), only the way to "end" drops the transport, and *)
(*            after a step that makes the operation return 0 nothing is    *)
(*            left to be tried (Exact).                                    *)
(* StreamInv  while no error is recorded, the buffer after rx_start is     *)
(*            exactly the bytes the server has sent and libssh2 has not    *)
(*            got, in order.                                               *)
(* FileInv    what each operation of a command knows of the copies of the  *)
(*            file: a result of 0 means that the copy it made is whole,    *)
(*            and an operation that removes or truncates one copy runs     *)
(*            only while another is whole.                                 *)
(***************************************************************************)
EXTENDS SshClient, TLAPS

-----------------------------------------------------------------------------
(* The scripts: what is held while a call runs.                              *)

HeldIn(phase) ==
    CASE phase = "connect" -> {"transport"}
      [] phase \in {"handshake", "auth", "opened", "disconnect"} -> {"transport", "session"}
      [] phase \in {"channel_exec", "channel_read", "channel_close"} -> {"transport", "session", "channel"}
      [] phase \in {"opendir", "open", "create", "unlink", "rename", "shutdown"} ->
            {"transport", "session", "sftp"}
      [] phase \in {"readdir", "read", "write", "close"} -> {"transport", "session", "sftp", "handle"}
      [] OTHER -> {}

\* a channel that could not be closed is still there at the disconnect, and then
\* keeps its session
Holding(phase) ==
    {HeldIn(phase)} \cup (IF phase = "disconnect" THEN {HeldIn(phase) \cup {"channel"}}
                         ELSE IF phase = "end" THEN {{"session", "channel"}} ELSE {})

\* an operation takes down what it built
Ending == {"close", "shutdown", "disconnect", "end"}

\* an operation that returns 0 has passed the last step of its body
Passed == Ending \cup {"channel_close"}

Rest(go, h) == (h \ go.drops) \cup go.gets

\* a way out of phase p of an operation with the phases D: what it gives back
\* and acquires makes up the difference
GoOk(go, p, D) ==
    /\ go.to \in D \cup {"end"} /\ go.to \notin {"connect", "idle"}
    /\ "transport" \in go.drops <=> go.to = "end"
    /\ "buffer" \notin go.drops /\ "buffer" \notin go.gets /\ "buffer" \notin go.tries
    /\ \A h \in Holding(p) : /\ Rest(go, h) \ go.tries \in Holding(go.to)
                             /\ "channel" \in Rest(go, h) => Rest(go, h) \in Holding(go.to)
    /\ p \in Ending \cup {"read", "write", "unlink", "rename"} => go.to \in Ending

\* nothing is left to chance on this way
Exact(go, p) ==
    /\ Rest(go, HeldIn(p)) \ go.tries = HeldIn(go.to)
    /\ "channel" \in Rest(go, HeldIn(p)) => Rest(go, HeldIn(p)) = HeldIn(go.to)

RowOk(row, p, D) ==
    /\ GoOk(row.ok, p, D) /\ GoOk(row.fail, p, D) /\ GoOk(row.late, p, D)
    /\ row.ok.to = "read" => p = "open"
    /\ row.fail.to # "read" /\ row.late.to # "read"
    /\ p \in Passed \cup {"read", "write", "unlink", "rename", "channel_read", "readdir"} =>
          Exact(row.ok, p) /\ row.ok.to \in Passed
    /\ p \in Passed \cup {"readdir"} => Exact(row.fail, p) /\ row.fail.to \in Passed
    /\ p \in Passed => Exact(row.late, p) /\ row.late.to \in Passed

TableOk(f, D) == \A p \in DOMAIN f : p \notin {"idle", "end"} /\ RowOk(f[p], p, D)

LEMMA OpenSessionOk ==
    ASSUME NEW D, {"handshake", "auth", "opened"} \subseteq D
    PROVE  DOMAIN OpenSession = {"connect", "handshake", "auth"} /\ TableOk(OpenSession, D)
<1>1. DOMAIN OpenSession = {"connect", "handshake", "auth"}
  BY DEF OpenSession
<1>2. RowOk(OpenSession["connect"], "connect", D)
  BY DEF OpenSession, RowOk, GoOk, Exact, Rest, Holding, HeldIn, Row, RowLate, Try, Go, Ending, Passed
<1>3. RowOk(OpenSession["handshake"], "handshake", D)
  BY DEF OpenSession, RowOk, GoOk, Exact, Rest, Holding, HeldIn, Row, RowLate, Try, Go, Ending, Passed
<1>4. RowOk(OpenSession["auth"], "auth", D)
  BY DEF OpenSession, RowOk, GoOk, Exact, Rest, Holding, HeldIn, Row, RowLate, Try, Go, Ending, Passed
<1> QED BY <1>1, <1>2, <1>3, <1>4 DEF TableOk

LEMMA ProbeOk == DOMAIN Probe = {"connect"} /\ TableOk(Probe, {"connect"})
<1>1. DOMAIN Probe = {"connect"}
  BY DEF Probe
<1>2. RowOk(Probe["connect"], "connect", {"connect"})
  BY DEF Probe, RowOk, GoOk, Exact, Rest, Holding, HeldIn, Row, RowLate, Try, Go, Ending, Passed
<1> QED BY <1>1, <1>2 DEF TableOk

LEMMA ClosingOk ==
    ASSUME NEW D, {"shutdown", "disconnect"} \subseteq D
    PROVE  DOMAIN Closing = {"close", "shutdown", "disconnect"} /\ TableOk(Closing, D)
<1>1. DOMAIN Closing = {"close", "shutdown", "disconnect"}
  BY DEF Closing
<1>2. RowOk(Closing["close"], "close", D)
  BY DEF Closing, RowOk, GoOk, Exact, Rest, Holding, HeldIn, Row, RowLate, Try, Go, Ending, Passed
<1>3. RowOk(Closing["shutdown"], "shutdown", D)
  BY DEF Closing, RowOk, GoOk, Exact, Rest, Holding, HeldIn, Row, RowLate, Try, Go, Ending, Passed
<1>4. RowOk(Closing["disconnect"], "disconnect", D)
  <2> DEFINE go == Try("end", {}, {"transport"}, {"session", "channel"})
  <2>1. /\ go.to = "end" /\ go.gets = {} /\ go.drops = {"transport"}
        /\ go.tries = {"session", "channel"}
    BY DEF Try, Go
  <2>2. LET row == Closing["disconnect"] IN row.ok = go /\ row.fail = go /\ row.late = go
    BY DEF Closing, Row
  <2> HIDE DEF go
  <2>3. /\ HeldIn("disconnect") = {"transport", "session"} /\ HeldIn("end") = {}
        /\ Holding("disconnect") = {{"transport", "session"}, {"transport", "session", "channel"}}
        /\ Holding("end") = {{}, {"session", "channel"}}
    BY DEF Holding, HeldIn
  <2>4. \A h \in Holding("disconnect") : /\ Rest(go, h) \ go.tries = {}
                                         /\ "channel" \in Rest(go, h) => Rest(go, h) = {"session", "channel"}
    BY <2>1, <2>3 DEF Rest
  <2>5. GoOk(go, "disconnect", D)
    BY <2>1, <2>3, <2>4 DEF GoOk, Ending
  <2>6. Exact(go, "disconnect") /\ go.to \in Passed
    BY <2>1, <2>3 DEF Exact, Rest, Passed, Ending
  <2> QED BY <2>1, <2>2, <2>5, <2>6 DEF RowOk
<1> QED BY <1>1, <1>2, <1>3, <1>4 DEF TableOk

LEMMA ChannelExecOk ==
    ASSUME NEW D, {"channel_exec", "channel_read", "channel_close", "disconnect"} \subseteq D
    PROVE  /\ DOMAIN ChannelExec = {"opened", "channel_exec", "channel_read", "channel_close"}
           /\ TableOk(ChannelExec, D)
<1>1. DOMAIN ChannelExec = {"opened", "channel_exec", "channel_read", "channel_close"}
  BY DEF ChannelExec
<1>2. RowOk(ChannelExec["opened"], "opened", D)
  BY DEF ChannelExec, RowOk, GoOk, Exact, Rest, Holding, HeldIn, Row, RowLate, Try, Go, Ending, Passed
<1>3. RowOk(ChannelExec["channel_exec"], "channel_exec", D)
  BY DEF ChannelExec, RowOk, GoOk, Exact, Rest, Holding, HeldIn, Row, RowLate, Try, Go, Ending, Passed
<1>4. RowOk(ChannelExec["channel_read"], "channel_read", D)
  BY DEF ChannelExec, RowOk, GoOk, Exact, Rest, Holding, HeldIn, Row, RowLate, Try, Go, Ending, Passed
<1>5. RowOk(ChannelExec["channel_close"], "channel_close", D)
  BY DEF ChannelExec, RowOk, GoOk, Exact, Rest, Holding, HeldIn, Row, RowLate, Try, Go, Ending, Passed
<1> QED BY <1>1, <1>2, <1>3, <1>4, <1>5 DEF TableOk

LEMMA SftpInitOk ==
    ASSUME NEW D, NEW first \in {"opendir", "open", "create", "unlink", "rename"}, {first, "disconnect"} \subseteq D
    PROVE  DOMAIN SftpInit(first) = {"opened"} /\ TableOk(SftpInit(first), D)
<1>1. DOMAIN SftpInit(first) = {"opened"}
  BY DEF SftpInit
<1>2. RowOk(SftpInit(first)["opened"], "opened", D)
  <2> DEFINE ok == Go(first, {"sftp"}, {})
             fail == Try("disconnect", {"channel"}, {}, {"channel"})
             over == Go("disconnect", {"channel"}, {})
  <2>1. /\ ok.to = first /\ ok.gets = {"sftp"} /\ ok.drops = {} /\ ok.tries = {}
        /\ fail.to = "disconnect" /\ fail.gets = {"channel"} /\ fail.drops = {} /\ fail.tries = {"channel"}
        /\ over.to = "disconnect" /\ over.gets = {"channel"} /\ over.drops = {} /\ over.tries = {}
    BY DEF Try, Go
  <2>2. LET row == SftpInit(first)["opened"] IN row.ok = ok /\ row.fail = fail /\ row.late = over
    BY DEF SftpInit, RowLate, Row
  <2> HIDE DEF ok, fail, over
  <2>3. /\ Holding("opened") = {{"transport", "session"}}
        /\ Holding("disconnect") = {{"transport", "session"}, {"transport", "session", "channel"}}
        /\ Holding(first) = {{"transport", "session", "sftp"}}
    BY DEF Holding, HeldIn
  <2>4. GoOk(ok, "opened", D)
    BY <2>1, <2>3 DEF GoOk, Rest, Ending
  <2>5. GoOk(fail, "opened", D)
    BY <2>1, <2>3 DEF GoOk, Rest, Ending
  <2>6. GoOk(over, "opened", D)
    BY <2>1, <2>3 DEF GoOk, Rest, Ending
  <2> QED BY <2>1, <2>2, <2>4, <2>5, <2>6 DEF RowOk, Passed, Ending
<1> QED BY <1>1, <1>2 DEF TableOk

LEMMA SftpLsOk ==
    ASSUME NEW D, {"readdir", "close", "shutdown"} \subseteq D
    PROVE  DOMAIN SftpLs = {"opendir", "readdir"} /\ TableOk(SftpLs, D)
<1>1. DOMAIN SftpLs = {"opendir", "readdir"}
  BY DEF SftpLs
<1>2. RowOk(SftpLs["opendir"], "opendir", D)
  BY DEF SftpLs, RowOk, GoOk, Exact, Rest, Holding, HeldIn, Row, RowLate, Try, Go, Ending, Passed
<1>3. RowOk(SftpLs["readdir"], "readdir", D)
  BY DEF SftpLs, RowOk, GoOk, Exact, Rest, Holding, HeldIn, Row, RowLate, Try, Go, Ending, Passed
<1> QED BY <1>1, <1>2, <1>3 DEF TableOk

LEMMA SftpGetOk ==
    ASSUME NEW D, {"read", "close", "shutdown"} \subseteq D
    PROVE  DOMAIN SftpGet = {"open", "read"} /\ TableOk(SftpGet, D)
<1>1. DOMAIN SftpGet = {"open", "read"}
  BY DEF SftpGet
<1>2. RowOk(SftpGet["open"], "open", D)
  BY DEF SftpGet, RowOk, GoOk, Exact, Rest, Holding, HeldIn, Row, RowLate, Try, Go, Ending, Passed
<1>3. RowOk(SftpGet["read"], "read", D)
  BY DEF SftpGet, RowOk, GoOk, Exact, Rest, Holding, HeldIn, Row, RowLate, Try, Go, Ending, Passed
<1> QED BY <1>1, <1>2, <1>3 DEF TableOk

LEMMA SftpPutOk ==
    ASSUME NEW D, {"write", "close", "shutdown"} \subseteq D
    PROVE  DOMAIN SftpPut = {"create", "write"} /\ TableOk(SftpPut, D)
<1>1. DOMAIN SftpPut = {"create", "write"}
  BY DEF SftpPut
<1>2. RowOk(SftpPut["create"], "create", D)
  BY DEF SftpPut, RowOk, GoOk, Exact, Rest, Holding, HeldIn, Row, RowLate, Try, Go, Ending, Passed
<1>3. RowOk(SftpPut["write"], "write", D)
  BY DEF SftpPut, RowOk, GoOk, Exact, Rest, Holding, HeldIn, Row, RowLate, Try, Go, Ending, Passed
<1> QED BY <1>1, <1>2, <1>3 DEF TableOk

LEMMA SftpUnlinkOk ==
    ASSUME NEW D, {"shutdown"} \subseteq D
    PROVE  DOMAIN SftpUnlink = {"unlink"} /\ TableOk(SftpUnlink, D)
<1>1. DOMAIN SftpUnlink = {"unlink"}
  BY DEF SftpUnlink
<1>2. RowOk(SftpUnlink["unlink"], "unlink", D)
  BY DEF SftpUnlink, RowOk, GoOk, Exact, Rest, Holding, HeldIn, Row, RowLate, Try, Go, Ending, Passed
<1> QED BY <1>1, <1>2 DEF TableOk

LEMMA SftpRenameOk ==
    ASSUME NEW D, {"shutdown"} \subseteq D
    PROVE  DOMAIN SftpRename = {"rename"} /\ TableOk(SftpRename, D)
<1>1. DOMAIN SftpRename = {"rename"}
  BY DEF SftpRename
<1>2. RowOk(SftpRename["rename"], "rename", D)
  BY DEF SftpRename, RowOk, GoOk, Exact, Rest, Holding, HeldIn, Row, RowLate, Try, Go, Ending, Passed
<1> QED BY <1>1, <1>2 DEF TableOk

LEMMA JoinOk ==
    ASSUME NEW D, NEW f, NEW g, TableOk(f, D), TableOk(g, D)
    PROVE  DOMAIN Join(f, g) = DOMAIN f \cup DOMAIN g /\ TableOk(Join(f, g), D)
<1> DEFINE h == Join(f, g)
<1>1. DOMAIN h = DOMAIN f \cup DOMAIN g /\ \A p \in DOMAIN h : h[p] = IF p \in DOMAIN f THEN f[p] ELSE g[p]
  BY DEF Join
<1> HIDE DEF h
<1>2. TableOk(h, D)
  BY <1>1 DEF TableOk
<1> QED BY <1>1, <1>2 DEF h

Around(D) == {"connect", "handshake", "auth", "opened", "close", "shutdown", "disconnect"} \cup D

LEMMA SessionOk ==
    ASSUME NEW D, NEW body, TableOk(body, Around(D)), DOMAIN body = {"opened"} \cup D
    PROVE  DOMAIN Session(body) = Around(D) /\ TableOk(Session(body), Around(D))
<1>1. /\ DOMAIN OpenSession = {"connect", "handshake", "auth"} /\ TableOk(OpenSession, Around(D))
      /\ DOMAIN Closing = {"close", "shutdown", "disconnect"} /\ TableOk(Closing, Around(D))
  <2>1. {"handshake", "auth", "opened"} \subseteq Around(D) /\ {"shutdown", "disconnect"} \subseteq Around(D)
    BY DEF Around
  <2> QED BY <2>1, OpenSessionOk, ClosingOk
<1>2. /\ DOMAIN Join(body, Closing) = DOMAIN body \cup DOMAIN Closing /\ TableOk(Join(body, Closing), Around(D))
  BY <1>1, JoinOk
<1>3. /\ DOMAIN Session(body) = DOMAIN OpenSession \cup DOMAIN Join(body, Closing)
      /\ TableOk(Session(body), Around(D))
  BY <1>1, <1>2, JoinOk DEF Session
<1> QED BY <1>1, <1>2, <1>3 DEF Around

LEMMA SftpOk ==
    ASSUME NEW D, NEW body, NEW first \in {"opendir", "open", "create", "unlink", "rename"}, first \in D,
           TableOk(body, Around(D)), DOMAIN body = D
    PROVE  DOMAIN Sftp(first, body) = Around(D) /\ TableOk(Sftp(first, body), Around(D))
<1>1. DOMAIN SftpInit(first) = {"opened"} /\ TableOk(SftpInit(first), Around(D))
  <2>1. {first, "disconnect"} \subseteq Around(D)
    BY DEF Around
  <2> QED BY <2>1, SftpInitOk
<1>2. DOMAIN Join(SftpInit(first), body) = {"opened"} \cup D /\ TableOk(Join(SftpInit(first), body), Around(D))
  <2>1. /\ DOMAIN Join(SftpInit(first), body) = DOMAIN SftpInit(first) \cup DOMAIN body
        /\ TableOk(Join(SftpInit(first), body), Around(D))
    BY <1>1, JoinOk
  <2> QED BY <1>1, <2>1
<1> QED BY <1>2, SessionOk DEF Sftp

\* the calls of an operation between the opening and the closing of its session
BodyOf(op) ==
    CASE op = "exec" -> {"channel_exec", "channel_read", "channel_close"}
      [] op = "ls" -> {"opendir", "readdir"}
      [] op \in {"get", "read"} -> {"open", "read"}
      [] op \in {"put", "write"} -> {"create", "write"}
      [] op = "unlink" -> {"unlink"}
      [] op = "rename" -> {"rename"}
      [] OTHER -> {}

Ops == {"probe", "exec", "ls", "get", "read", "put", "write", "unlink", "rename"}

LEMMA ScriptOk ==
    ASSUME NEW op \in Ops
    PROVE  /\ DOMAIN Script[op] = IF op = "probe" THEN {"connect"} ELSE Around(BodyOf(op))
           /\ TableOk(Script[op], DOMAIN Script[op])
<1>0. /\ {"channel_exec", "channel_read", "channel_close", "disconnect"} \subseteq Around(BodyOf("exec"))
      /\ {"readdir", "close", "shutdown"} \subseteq Around(BodyOf("ls"))
      /\ {"read", "close", "shutdown"} \subseteq Around(BodyOf("get"))
      /\ {"read", "close", "shutdown"} \subseteq Around(BodyOf("read"))
      /\ {"write", "close", "shutdown"} \subseteq Around(BodyOf("put"))
      /\ {"write", "close", "shutdown"} \subseteq Around(BodyOf("write"))
      /\ {"shutdown"} \subseteq Around(BodyOf("unlink")) /\ {"shutdown"} \subseteq Around(BodyOf("rename"))
  BY DEF Around, BodyOf
<1>1. CASE op = "probe"
  BY <1>1, ProbeOk DEF Script
<1>2. CASE op = "exec"
  <2>1. Script[op] = Session(ChannelExec) /\ op # "probe"
    BY <1>2 DEF Script
  <2>2. DOMAIN ChannelExec = {"opened"} \cup BodyOf(op) /\ TableOk(ChannelExec, Around(BodyOf(op)))
    BY <1>0, <1>2, ChannelExecOk DEF BodyOf
  <2> QED BY <2>1, <2>2, SessionOk
<1>3. CASE op = "ls"
  <2>1. Script[op] = Sftp("opendir", SftpLs) /\ op # "probe"
    BY <1>3 DEF Script
  <2>2. DOMAIN SftpLs = BodyOf(op) /\ TableOk(SftpLs, Around(BodyOf(op))) /\ "opendir" \in BodyOf(op)
    BY <1>0, <1>3, SftpLsOk DEF BodyOf
  <2> QED BY <2>1, <2>2, SftpOk
<1>4. CASE op \in {"get", "read"}
  <2>1. Script[op] = Sftp("open", SftpGet) /\ op # "probe"
    BY <1>4 DEF Script, SftpReadAlloc
  <2>2. DOMAIN SftpGet = BodyOf(op) /\ TableOk(SftpGet, Around(BodyOf(op))) /\ "open" \in BodyOf(op)
    BY <1>0, <1>4, SftpGetOk DEF BodyOf
  <2> QED BY <2>1, <2>2, SftpOk
<1>5. CASE op \in {"put", "write"}
  <2>1. Script[op] = Sftp("create", SftpPut) /\ op # "probe"
    BY <1>5 DEF Script, SftpWriteBytes
  <2>2. DOMAIN SftpPut = BodyOf(op) /\ TableOk(SftpPut, Around(BodyOf(op))) /\ "create" \in BodyOf(op)
    BY <1>0, <1>5, SftpPutOk DEF BodyOf
  <2> QED BY <2>1, <2>2, SftpOk
<1>6. CASE op = "unlink"
  <2>1. Script[op] = Sftp("unlink", SftpUnlink) /\ op # "probe"
    BY <1>6 DEF Script
  <2>2. DOMAIN SftpUnlink = BodyOf(op) /\ TableOk(SftpUnlink, Around(BodyOf(op))) /\ "unlink" \in BodyOf(op)
    BY <1>0, <1>6, SftpUnlinkOk DEF BodyOf
  <2> QED BY <2>1, <2>2, SftpOk
<1>7. CASE op = "rename"
  <2>1. Script[op] = Sftp("rename", SftpRename) /\ op # "probe"
    BY <1>7 DEF Script
  <2>2. DOMAIN SftpRename = BodyOf(op) /\ TableOk(SftpRename, Around(BodyOf(op))) /\ "rename" \in BodyOf(op)
    BY <1>0, <1>7, SftpRenameOk DEF BodyOf
  <2> QED BY <2>1, <2>2, SftpOk
<1> QED BY <1>1, <1>2, <1>3, <1>4, <1>5, <1>6, <1>7 DEF Ops

-----------------------------------------------------------------------------
(* What a command holds.                                                     *)

Fields == {"cmd", "op", "phase", "asked", "held", "src", "dst", "file", "off", "buf", "rc", "lost"}

HoldOk(j, tr) ==
    /\ DOMAIN j = Fields
    /\ j.asked \in BOOLEAN
    /\ j.phase \in {"idle", "end", "connect"} => ~j.asked
    /\ j.phase = "idle" => j.held = {} /\ tr = NoTransport
    /\ j.phase = "end" => tr = NoTransport
    /\ j.phase # "idle" => j.op \in Ops /\ j.held \ {"buffer"} \in Holding(j.phase)
    /\ j.phase # "idle" /\ j.rc => j.phase \in Passed /\ j.held \ {"buffer"} = HeldIn(j.phase)
    /\ j.lost \in {{}, {"session", "channel"}}
    /\ j.phase \notin {"idle", "end"} =>
          /\ j.phase \in DOMAIN Script[j.op]
          /\ tr.pcb # "none"

HoldInv == HoldOk(job, t)

LEMMA HoldNotIdle ==
    ASSUME NEW j, NEW tr, NEW tr2, HoldOk(j, tr), tr.pcb # "none", tr2.pcb # "none"
    PROVE  HoldOk(j, tr2) /\ j.phase \notin {"idle", "end"}
  BY DEF HoldOk, NoTransport

LEMMA HoldBegin ==
    ASSUME NEW j, NEW op \in Ops, DOMAIN j = Fields, Lost(j) \in {{}, {"session", "channel"}}
    PROVE  HoldOk(Begin(j, op), NewTransport)
<1> DEFINE b == Begin(j, op)
<1>1. /\ DOMAIN b = Fields /\ b.asked = FALSE /\ b.phase = "connect" /\ b.op = op
      /\ b.held \ {"buffer"} = {"transport"} /\ ~b.rc /\ b.lost = Lost(j)
  BY DEF Begin, Fields
<1>2. "connect" \in DOMAIN Script[op]
  BY ScriptOk DEF Around
<1>3. {"transport"} \in Holding("connect")
  BY DEF Holding, HeldIn
<1>4. NewTransport.pcb = "live"
  BY DEF NewTransport, NoTransport
<1> HIDE DEF b
<1>5. HoldOk(b, NewTransport)
  BY <1>1, <1>2, <1>3, <1>4 DEF HoldOk
<1> QED BY <1>5 DEF b

Answered == {"ok", "fail", "late"}

LEMMA RowOf ==
    ASSUME NEW row, NEW p, NEW D, RowOk(row, p, D), NEW answer \in Answered
    PROVE  GoOk(row[answer], p, D)
  BY DEF RowOk, Answered

\* the ways out of a phase, and what is held after each
LEMMA HoldLeave ==
    ASSUME NEW answer \in Answered, NEW tr, HoldInv, job.phase \notin {"idle", "end"}, tr.pcb # "none",
           Leave(answer, tr)
    PROVE  HoldInv'
<1> DEFINE row == Script[job.op][job.phase]
           go == row[answer]
           D == DOMAIN Script[job.op]
           h == job.held \ {"buffer"}
<1>1. job.op \in Ops /\ job.phase \in D /\ DOMAIN job = Fields /\ h \in Holding(job.phase)
  BY DEF HoldInv, HoldOk
<1>2. RowOk(row, job.phase, D) /\ GoOk(go, job.phase, D)
  BY <1>1, ScriptOk, RowOf DEF TableOk
<1>3. PICK held \in Left(go, tr) :
        job' = [job EXCEPT !.phase = go.to, !.asked = FALSE, !.off = 0, !.held = held,
                           !.rc = @ \/ Succeeds(job, answer),
                           !.buf = IF job.phase = "read" /\ answer = "ok"
                                   THEN remote[job.file] ELSE @]
  BY DEF Leave
<1>4. /\ DOMAIN job' = Fields /\ job'.phase = go.to /\ job'.asked = FALSE /\ job'.op = job.op
      /\ job'.held = held /\ job'.lost = job.lost /\ job'.rc = (job.rc \/ Succeeds(job, answer))
  BY <1>1, <1>3 DEF Fields
<1>5. t' = Destroy(tr, go.drops)
  BY DEF Leave
<1>7. answer = "ok" \/ answer = "fail" \/ answer = "late"
  BY DEF Answered
<1>8. job'.rc => Exact(go, job.phase) /\ go.to \in Passed /\ h = HeldIn(job.phase)
  <2>1. CASE job.rc
    <3>1. job.phase \in Passed /\ h = HeldIn(job.phase)
      BY <2>1 DEF HoldInv, HoldOk
    <3> QED BY <1>2, <1>7, <3>1 DEF RowOk
  <2>2. CASE ~job.rc /\ Succeeds(job, answer)
    <3>1. CASE answer = "ok" /\ job.phase \in {"read", "write", "unlink", "rename", "channel_read", "readdir"}
      <4>1. h = HeldIn(job.phase)
        BY <1>1, <3>1 DEF Holding
      <4> QED BY <1>2, <3>1, <4>1 DEF RowOk
    <3>2. CASE answer = "ok" /\ job.op = "probe"
      <4>1. job.phase = "connect" /\ row = Probe["connect"]
        BY <1>1, <3>2, ScriptOk DEF Script
      <4>2. go = Go("end", {}, {"transport"})
        BY <3>2, <4>1 DEF Probe, Row
      <4>3. Exact(go, "connect") /\ go.to \in Passed
        BY <4>2 DEF Exact, Rest, Go, HeldIn, Passed, Ending
      <4>4. h = HeldIn(job.phase)
        BY <1>1, <4>1 DEF Holding
      <4> QED BY <4>1, <4>3, <4>4
    <3>3. CASE answer = "fail" /\ job.phase = "readdir"
      <4>1. h = HeldIn(job.phase)
        BY <1>1, <3>3 DEF Holding
      <4> QED BY <1>2, <3>3, <4>1 DEF RowOk
    <3> QED BY <2>2, <3>1, <3>2, <3>3 DEF Succeeds
  <2> QED BY <1>4, <2>1, <2>2
<1> HIDE DEF row, go, D
<1>9. \/ held \ {"buffer"} = Rest(go, h) \ go.tries
      \/ held \ {"buffer"} = Rest(go, h) /\ "channel" \in Rest(go, h)
  <2>1. "buffer" \notin go.gets /\ "buffer" \notin go.drops /\ "buffer" \notin go.tries
    BY <1>2 DEF GoOk
  <2>2. \/ held = ((job.held \ go.drops) \cup go.gets) \ go.tries
        \/ held = (job.held \ go.drops) \cup go.gets /\ "channel" \in (job.held \ go.drops) \cup go.gets
    BY <1>3 DEF Left
  <2> QED BY <2>1, <2>2 DEF Rest
<1> HIDE DEF h
<1>10. held \ {"buffer"} \in Holding(go.to)
  <2>1. \A x \in Holding(job.phase) : /\ Rest(go, x) \ go.tries \in Holding(go.to)
                                      /\ "channel" \in Rest(go, x) => Rest(go, x) \in Holding(go.to)
    BY <1>2 DEF GoOk
  <2>2. /\ Rest(go, h) \ go.tries \in Holding(go.to)
        /\ "channel" \in Rest(go, h) => Rest(go, h) \in Holding(go.to)
    BY <1>1, <2>1
  <2> QED BY <1>9, <2>2
<1>11. job'.rc => held \ {"buffer"} = HeldIn(go.to)
  BY <1>8, <1>9 DEF Exact
<1>12. t' = IF go.to = "end" THEN NoTransport ELSE tr
  BY <1>2, <1>5 DEF GoOk, Destroy
<1>13. go.to # "idle" /\ go.to # "connect" /\ (go.to # "end" => go.to \in D)
  BY <1>2 DEF GoOk
<1>14. job.lost \in {{}, {"session", "channel"}}
  BY DEF HoldInv, HoldOk
<1> QED BY <1>1, <1>4, <1>8, <1>10, <1>11, <1>12, <1>13, <1>14 DEF HoldInv, HoldOk, D

LEMMA HoldInit == Init => HoldInv
<1>1. HoldOk(Idle, NoTransport)
  BY DEF HoldOk, Idle, Fields
<1> QED BY <1>1 DEF Init, HoldInv

LEMMA HoldNext == HoldInv /\ [Next]_vars => HoldInv'
<1> SUFFICES ASSUME HoldInv, [Next]_vars PROVE HoldInv'
  OBVIOUS
<1>0. /\ DOMAIN job = Fields
      /\ job.asked => job.phase \notin {"idle", "end", "connect"}
      /\ job.phase \notin {"idle", "end"} => t.pcb # "none"
  BY DEF HoldInv, HoldOk
<1>1. CASE ConnectRound
  <2>1. job.phase \notin {"idle", "end"} /\ \E answer \in Answered : Leave(answer, t)
    BY <1>1 DEF ConnectRound, Answered
  <2> QED BY <1>0, <2>1, HoldLeave
<1>2. CASE SendRound
  <2>1. job.phase \notin {"idle", "end", "connect"}
    BY <1>2 DEF SendRound
  <2>2. \/ \E answer \in Answered : Leave(answer, t)
        \/ job' = [job EXCEPT !.asked = TRUE] /\ \E full \in BOOLEAN : t' = [t EXCEPT !.full = full]
    BY <1>2 DEF SendRound, Answered
  <2>3. ASSUME NEW full \in BOOLEAN, job' = [job EXCEPT !.asked = TRUE], t' = [t EXCEPT !.full = full]
        PROVE  HoldInv'
    <3>1. t'.pcb = t.pcb
      BY <2>3
    <3> QED BY <1>0, <2>1, <2>3, <3>1 DEF HoldInv, HoldOk, Fields
  <2> QED BY <1>0, <2>1, <2>2, <2>3, HoldLeave
<1>3. CASE AnswerRound
  <2>1. job.asked /\ job.phase \notin {"idle", "end", "connect"} /\ t.pcb # "none"
    BY <1>0, <1>3 DEF AnswerRound
  <2>2. PICK n \in 1 .. RxSize :
          LET r == Libssh2Recv(t, n)
              left == Renumbered(r.t, r.bytes[Len(r.bytes)])
          IN  \E answer \in Answered \cup {"data"} :
                IF answer = "data" THEN GoOn(left) ELSE Leave(answer, left)
    BY <1>3 DEF AnswerRound, Answers, Answered
  <2> DEFINE r == Libssh2Recv(t, n)
             left == Renumbered(r.t, r.bytes[Len(r.bytes)])
  <2>3. left.pcb = t.pcb
    BY DEF Renumbered, Libssh2Recv
  <2>4. GoOn(left) \/ \E answer \in Answered : Leave(answer, left)
    BY <2>2
  <2> HIDE DEF left, r
  <2>5. CASE GoOn(left)
    BY <1>0, <2>1, <2>3, <2>5 DEF GoOn, HoldInv, HoldOk, Fields
  <2> QED BY <2>1, <2>3, <2>4, <2>5, HoldLeave
<1>4. CASE EmptyRound
  <2> DEFINE left == Libssh2Recv(t, RxSize).t
  <2>1. job.asked /\ \E answer \in Answered : Leave(answer, left)
    BY <1>4 DEF EmptyRound, Answered
  <2>2. left.pcb = t.pcb
    BY DEF Libssh2Recv
  <2> HIDE DEF left
  <2> QED BY <1>0, <2>1, <2>2, HoldLeave
<1>5. CASE Finish
  <2>1. job.phase = "end" /\ t = NoTransport /\ Lost(job) \in {{}, {"session", "channel"}}
    BY <1>5 DEF Finish, HoldInv, HoldOk, Holding, HeldIn, Lost
  <2>2. PICK stored \in BOOLEAN :
          LET next == FollowUp(job, stored)
          IN  /\ job' = IF next = "none" THEN [Idle EXCEPT !.lost = Lost(job)] ELSE Begin(job, next)
              /\ t' = IF next = "none" THEN t ELSE NewTransport
    BY <1>5 DEF Finish
  <2>3. FollowUp(job, stored) # "none" => FollowUp(job, stored) \in Ops
    BY DEF FollowUp, Ops
  <2> DEFINE next == FollowUp(job, stored)
  <2>4. CASE next = "none"
    BY <2>1, <2>2, <2>4 DEF HoldInv, HoldOk, Idle, Fields
  <2>5. CASE next # "none"
    <3> HIDE DEF next
    <3>1. job' = Begin(job, next) /\ t' = NewTransport /\ next \in Ops
      BY <2>2, <2>3, <2>5 DEF next
    <3>2. HoldOk(Begin(job, next), NewTransport)
      BY <1>0, <2>1, <3>1, HoldBegin
    <3> QED BY <3>1, <3>2 DEF HoldInv
  <2> QED BY <2>4, <2>5
<1>6. ASSUME NEW cmd \in Commands, NEW src \in RemoteNames, NEW dst \in RemoteNames, Command(cmd, src, dst)
      PROVE  HoldInv'
  <2> DEFINE j == [Idle EXCEPT !.cmd = cmd, !.src = src, !.dst = dst, !.buf = local]
  <2>1. DOMAIN j = Fields /\ Lost(j) = {}
    BY DEF Idle, Fields, Lost
  <2>2. FirstOp[cmd] \in Ops
    BY CommandsAssumption DEF FirstOp, Ops
  <2>3. job' = Begin(j, FirstOp[cmd]) /\ t' = NewTransport
    BY <1>6 DEF Command
  <2> HIDE DEF j
  <2>4. HoldOk(Begin(j, FirstOp[cmd]), NewTransport)
    BY <2>1, <2>2, HoldBegin
  <2> QED BY <2>3, <2>4 DEF HoldInv
<1>7. CASE Connected \/ Arrive \/ Acked \/ PeerCloses \/ PeerResets
  <2>1. t.pcb = "live" /\ UNCHANGED job
    BY <1>7 DEF Connected, Arrive, Acked, PeerCloses, PeerResets, Callback
  <2>2. t'.pcb \in {"live", "freed"}
    <3>1. CASE Connected
      BY <2>1, <3>1 DEF Connected, Callback, ConnectedCb
    <3>2. CASE Arrive
      <4>1. ASSUME NEW tr, NEW seg, tr.pcb = "live" PROVE PushSegment(tr, seg).pcb = "live"
        BY <4>1 DEF PushSegment, Trim
      <4>2. ASSUME NEW chain PROVE RecvCb(t, chain).pcb = "live"
        BY <2>1, <4>1 DEF RecvCb
      <4>3. \E chain : t' = RecvCb(t, chain)
        BY <3>2 DEF Arrive, Callback
      <4> QED BY <4>2, <4>3
    <3>3. CASE Acked
      BY <2>1, <3>3 DEF Acked, Callback, SentCb
    <3>4. CASE PeerCloses
      BY <2>1, <3>4 DEF PeerCloses, Callback, EofCb
    <3>5. CASE PeerResets
      <4>1. t' = [t EXCEPT !.closed = TRUE, !.err = TRUE, !.pcb = "freed"]
        BY <3>5 DEF PeerResets, Callback, ErrCb
      <4> QED BY <2>1, <4>1
    <3> QED BY <1>7, <3>1, <3>2, <3>3, <3>4, <3>5
  <2>3. HoldOk(job, t')
    BY <2>1, <2>2, HoldNotIdle DEF HoldInv
  <2> QED BY <2>1, <2>3 DEF HoldInv
<1>8. CASE TimePasses \/ (\E r \in Roots : Mount(r)) \/ UNCHANGED vars
  <2>1. UNCHANGED <<job, t>>
    BY <1>8 DEF TimePasses, Mount, vars
  <2> QED BY <2>1 DEF HoldInv
<1> QED BY <1>1, <1>2, <1>3, <1>4, <1>5, <1>6, <1>7, <1>8 DEF Next, Worker

\* an operation that has ended has given back the transport, SFTP session, handle
\* and buffer, whichever call failed, timed out or was cut off, and the session
\* and channel too when it returns 0; at most a channel that could not be closed
\* stays behind with its session (the done: labels, ssh_channel_exec_nonblock,
\* ssh_close_authenticated_session, ssh_transport_destroy)
THEOREM NothingStaysHeld == Spec => []NothingHeld
<1>1. HoldInv => NothingHeld
  <2>1. HeldIn("end") = {} /\ Holding("end") = {{}, {"session", "channel"}}
    BY DEF Holding, HeldIn
  <2> QED BY <2>1 DEF HoldInv, HoldOk, NothingHeld
<1> QED BY <1>1, HoldInit, HoldNext, PTL DEF Spec

-----------------------------------------------------------------------------
(* The receive buffer.                                                       *)

Transports ==
    [pcb : {"none", "live", "freed"}, connected : BOOLEAN, closed : BOOLEAN, err : BOOLEAN,
     full : BOOLEAN, rx : Seq(Int), start : Nat]

LEMMA ConcatAt ==
    ASSUME NEW a \in Seq(Int), NEW b \in Seq(Int)
    PROVE  /\ a \o b \in Seq(Int) /\ Len(a \o b) = Len(a) + Len(b)
           /\ \A i \in 1 .. Len(a) : (a \o b)[i] = a[i]
           /\ \A i \in 1 .. Len(b) : (a \o b)[Len(a) + i] = b[i]
  OBVIOUS

LEMMA SliceAt ==
    ASSUME NEW q \in Seq(Int), NEW a \in Nat, NEW e \in Nat, a <= e, e <= Len(q)
    PROVE  LET g == SubSeq(q, a + 1, e)
           IN  g \in Seq(Int) /\ Len(g) = e - a /\ \A i \in 1 .. e - a : g[i] = q[a + i]
  OBVIOUS

\* q holds, after its first a elements, the bytes 1 .. s
InOrder(q, a, s) == Len(q) - a = s /\ \A i \in 1 .. s : q[a + i] = i

StreamOk(tr, s) ==
    /\ tr \in Transports
    /\ s \in Int
    /\ tr.start <= Len(tr.rx)
    /\ tr.pcb # "none" /\ ~tr.err => InOrder(tr.rx, tr.start, s)

StreamInv == StreamOk(t, sent) /\ gap # "silent"

LEMMA NoTransportOk == NoTransport \in Transports /\ NewTransport \in Transports
<1>1. <<>> \in Seq(Int)
  OBVIOUS
<1> QED BY <1>1 DEF NoTransport, NewTransport, Transports

LEMMA NewStream ==
    /\ \A s \in Int : StreamOk(NoTransport, s)
    /\ StreamOk(NewTransport, 0)
<1>1. NoTransport.rx = <<>> /\ NoTransport.start = 0 /\ NoTransport.pcb = "none"
  BY DEF NoTransport
<1>2. NewTransport.rx = <<>> /\ NewTransport.start = 0
  BY DEF NewTransport, NoTransport
<1> QED BY <1>1, <1>2, NoTransportOk DEF StreamOk, InOrder

\* a change of the flags only
LEMMA FlagsOk ==
    ASSUME NEW tr, NEW u \in Transports, NEW s, StreamOk(tr, s),
           u.rx = tr.rx, u.start = tr.start, u.pcb # "none" => tr.pcb # "none", tr.err => u.err
    PROVE  StreamOk(u, s)
  BY DEF StreamOk, Transports

\* the bytes are moved to the front of the buffer
LEMMA TrimOk ==
    ASSUME NEW tr, NEW s, StreamOk(tr, s)
    PROVE  /\ StreamOk(Trim(tr), s)
           /\ Trim(tr).err = tr.err /\ Trim(tr).pcb = tr.pcb
           /\ Trim(tr).start = 0 /\ Len(Trim(tr).rx) <= Len(tr.rx)
<1> DEFINE q == SubSeq(tr.rx, tr.start + 1, Len(tr.rx))
           u == Trim(tr)
<1>1. tr.rx \in Seq(Int) /\ tr.start \in Nat /\ tr.start <= Len(tr.rx) /\ tr \in Transports /\ Len(tr.rx) \in Nat
  BY DEF StreamOk, Transports
<1>2. /\ q \in Seq(Int) /\ Len(q) = Len(tr.rx) - tr.start
      /\ \A i \in 1 .. Len(q) : q[i] = tr.rx[tr.start + i]
  <2>1. Len(tr.rx) <= Len(tr.rx)
    BY <1>1
  <2>2. q \in Seq(Int) /\ Len(q) = Len(tr.rx) - tr.start /\ \A i \in 1 .. Len(tr.rx) - tr.start : q[i] = tr.rx[tr.start + i]
    BY <1>1, <2>1, SliceAt, Zenon
  <2> QED BY <2>2, Zenon
<1>3. u = [[tr EXCEPT !.rx = q] EXCEPT !.start = 0]
  BY DEF Trim
<1> HIDE DEF q
<1>4. /\ u \in Transports /\ u.rx = q /\ u.start = 0 /\ u.err = tr.err /\ u.pcb = tr.pcb
  <2> DEFINE v == [tr EXCEPT !.rx = q]
  <2>1. v \in Transports /\ v.rx = q /\ v.err = tr.err /\ v.pcb = tr.pcb
    BY <1>1, <1>2 DEF Transports
  <2>2. u = [v EXCEPT !.start = 0]
    BY <1>3
  <2> HIDE DEF v, u
  <2> QED BY <2>1, <2>2 DEF Transports
<1> HIDE DEF u
<1>5. s \in Int
  BY DEF StreamOk
<1>6. ASSUME InOrder(tr.rx, tr.start, s) PROVE InOrder(q, 0, s)
  <2>1. Len(q) = s /\ \A i \in 1 .. s : tr.rx[tr.start + i] = i
    BY <1>2, <1>6 DEF InOrder
  <2>2. \A i \in 1 .. s : q[i] = i /\ 0 + i = i
    BY <1>2, <1>5, <2>1
  <2>3. Len(q) - 0 = s
    BY <1>5, <2>1
  <2> QED BY <2>2, <2>3 DEF InOrder
<1>7. StreamOk(u, s)
  BY <1>1, <1>2, <1>4, <1>5, <1>6 DEF StreamOk
<1> QED BY <1>1, <1>2, <1>4, <1>7 DEF u

LEMMA Inside ==
    ASSUME NEW a \in Nat, NEW s \in Nat, NEW n, n = a + s, NEW i \in 1 .. s
    PROVE  a + i \in 1 .. n
  OBVIOUS

\* one pbuf: the bytes s + 1 .. s + n follow, or the transport is in error
LEMMA PushOk ==
    ASSUME NEW tr, NEW s, StreamOk(tr, s), NEW n \in Nat
    PROVE  LET u == PushSegment(tr, Bytes(s, n)) IN
           /\ StreamOk(u, s + n)
           /\ n > FreeSpace(Trim(tr)) => u.err
<1> DEFINE seg == Bytes(s, n)
           r == IF Len(seg) > FreeSpace(tr) THEN Trim(tr) ELSE tr
           u == PushSegment(tr, seg)
<1>1. s \in Int /\ tr \in Transports /\ Len(tr.rx) \in Nat
  BY DEF StreamOk, Transports
<1>2. seg \in Seq(Int) /\ Len(seg) = n /\ \A i \in 1 .. n : seg[i] = s + i
  BY <1>1 DEF Bytes
<1>3. u = IF Len(seg) > FreeSpace(r) THEN [r EXCEPT !.err = TRUE] ELSE [r EXCEPT !.rx = @ \o seg]
  BY DEF PushSegment
<1>4. StreamOk(r, s)
  BY TrimOk
<1>5. n > FreeSpace(Trim(tr)) => Len(seg) > FreeSpace(r)
  <2>1. Len(Trim(tr).rx) <= Len(tr.rx) /\ Len(Trim(tr).rx) \in Nat
    <3>1. Trim(tr) \in Transports
      BY TrimOk DEF StreamOk
    <3>2. Trim(tr).rx \in Seq(Int)
      BY <3>1 DEF Transports
    <3>3. Len(Trim(tr).rx) \in Nat
      BY <3>2
    <3> QED BY <3>3, TrimOk, Zenon
  <2> QED BY <1>1, <1>2, <2>1, RxSizeAssumption DEF FreeSpace
<1> HIDE DEF r, seg, u
<1>6. r \in Transports /\ r.rx \in Seq(Int) /\ r.start \in Nat /\ r.start <= Len(r.rx)
  BY <1>4 DEF StreamOk, Transports
<1>7. CASE Len(seg) > FreeSpace(r)
  <2>1. u \in Transports /\ u.rx = r.rx /\ u.start = r.start /\ u.err
    BY <1>3, <1>6, <1>7 DEF Transports
  <2> QED BY <1>1, <1>6, <2>1 DEF StreamOk, u, seg
<1>8. CASE ~(Len(seg) > FreeSpace(r))
  <2> DEFINE q == r.rx \o seg
  <2>1. /\ q \in Seq(Int) /\ Len(q) = Len(r.rx) + n /\ \A i \in 1 .. Len(r.rx) : q[i] = r.rx[i]
        /\ \A i \in 1 .. n : q[Len(r.rx) + i] = seg[i]
    <3>1. /\ q \in Seq(Int) /\ Len(q) = Len(r.rx) + Len(seg)
          /\ \A i \in 1 .. Len(r.rx) : q[i] = r.rx[i]
          /\ \A i \in 1 .. Len(seg) : q[Len(r.rx) + i] = seg[i]
      BY <1>2, <1>6, ConcatAt
    <3> HIDE DEF q
    <3> QED BY <1>2, <3>1
  <2>2. u = [r EXCEPT !.rx = q]
    BY <1>3, <1>8
  <2> HIDE DEF q
  <2>3. u \in Transports /\ u.rx = q /\ u.start = r.start /\ u.err = r.err /\ u.pcb = r.pcb
    BY <1>6, <2>1, <2>2 DEF Transports
  <2>4. ASSUME InOrder(r.rx, r.start, s) PROVE InOrder(q, r.start, s + n)
    <3>1. Len(r.rx) = r.start + s /\ \A i \in 1 .. s : r.rx[r.start + i] = i
      BY <1>1, <1>6, <2>4 DEF InOrder
    <3>2. Len(r.rx) \in Nat /\ s \in Nat
      BY <1>1, <1>6, <3>1
    <3>3. ASSUME NEW i \in 1 .. s + n PROVE q[r.start + i] = i
      <4>1. CASE i <= s
        <5>1. i \in 1 .. s /\ r.start + i \in 1 .. Len(r.rx)
          <6>1. i \in 1 .. s
            BY <3>2, <4>1
          <6>2. r.start \in Nat /\ Len(r.rx) = r.start + s
            BY <1>6, <3>1
          <6> QED BY <3>2, <6>1, <6>2, Inside
        <5> QED BY <2>1, <3>1, <5>1
      <4>2. CASE i > s
        <5>1. i - s \in 1 .. n /\ r.start + i = Len(r.rx) + (i - s) /\ s + (i - s) = i
          BY <1>6, <3>1, <3>2, <4>2
        <5> QED BY <1>2, <2>1, <5>1
      <4> QED BY <3>2, <4>1, <4>2
    <3>4. Len(q) - r.start = s + n
      BY <1>6, <2>1, <3>1, <3>2
    <3> QED BY <3>3, <3>4 DEF InOrder
  <2>5. r.start <= Len(q)
    BY <1>6, <2>1
  <2>6. r.pcb # "none" /\ ~r.err => InOrder(r.rx, r.start, s)
    BY <1>4 DEF StreamOk
  <2>7. StreamOk(u, s + n)
    BY <1>1, <2>3, <2>4, <2>5, <2>6 DEF StreamOk
  <2> QED BY <1>5, <1>8, <2>7 DEF u, seg
<1> QED BY <1>5, <1>7, <1>8 DEF u, seg

\* ssh_altcp_recv_cb: the bytes s + 1 .. s + n, and m more, of one packet
LEMMA RecvCbOk ==
    ASSUME NEW tr, NEW s, StreamOk(tr, s), NEW n \in Nat, NEW m \in Nat
    PROVE  /\ StreamOk(RecvCb(tr, <<Bytes(s, n)>>), s + n)
           /\ StreamOk(RecvCb(tr, <<Bytes(s, n), Bytes(s + n, m)>>), s + (n + m))
<1> DEFINE first == Bytes(s, n)
           second == Bytes(s + n, m)
           r == PushSegment(tr, first)
<1>1. s \in Int
  BY DEF StreamOk
<1>2. Len(first) = n
  BY <1>1 DEF Bytes
<1>3. StreamOk(r, s + n) /\ (n > FreeSpace(Trim(tr)) => r.err)
  BY PushOk
<1> HIDE DEF first, second, r
<1>4. RecvCb(tr, <<first>>) = r
  BY DEF RecvCb, r
<1>5. RecvCb(tr, <<first, second>>) = IF n > FreeSpace(Trim(tr)) THEN r ELSE PushSegment(r, second)
  BY <1>2 DEF RecvCb, r
<1>6. CASE n > FreeSpace(Trim(tr))
  <2>1. StreamOk(r, s + (n + m))
    <3>1. r.err /\ s + (n + m) \in Int
      BY <1>1, <1>3, <1>6
    <3> QED BY <1>3, <3>1 DEF StreamOk
  <2> QED BY <1>3, <1>4, <1>5, <1>6, <2>1 DEF first, second
<1>7. CASE ~(n > FreeSpace(Trim(tr)))
  <2>1. StreamOk(PushSegment(r, second), (s + n) + m)
    BY <1>3, PushOk DEF second
  <2>2. (s + n) + m = s + (n + m)
    BY <1>1
  <2>3. StreamOk(PushSegment(r, second), s + (n + m))
    BY <2>1, <2>2, Zenon
  <2> QED BY <1>3, <1>4, <1>5, <1>7, <2>3 DEF first, second
<1> QED BY <1>6, <1>7

LEMMA Within ==
    ASSUME NEW a \in Nat, NEW m \in Nat, NEW n \in Nat, m <= n - a
    PROVE  a + m <= n /\ a + m \in Nat /\ a <= a + m /\ (a + m) - a = m
  OBVIOUS

LEMMA Shift ==
    ASSUME NEW a \in Nat, NEW m \in Nat, NEW s \in Int, NEW n \in Nat, m <= s, n - a = s, NEW i \in 1 .. s - m
    PROVE  m + i \in 1 .. s /\ a + m + i = a + (m + i) /\ a + m + i \in 1 .. n
  OBVIOUS

\* ssh_libssh2_recv: libssh2 gets the next bytes, and the rest is renumbered
LEMMA TakeOk ==
    ASSUME NEW tr, NEW s, StreamOk(tr, s), NEW n \in Nat \ {0}, Libssh2Recv(tr, n).rc = "data"
    PROVE  LET r == Libssh2Recv(tr, n)
               last == r.bytes[Len(r.bytes)]
           IN  /\ StreamOk(Renumbered(r.t, last), s - last)
               /\ tr.pcb # "none" /\ ~tr.err => \A i \in 1 .. Len(r.bytes) : r.bytes[i] = i
<1> DEFINE avail == Len(tr.rx) - tr.start
           m == IF avail < n THEN avail ELSE n
           r == Libssh2Recv(tr, n)
           got == r.bytes
           last == got[Len(got)]
           u == Renumbered(r.t, last)
<1>1. tr \in Transports /\ s \in Int /\ tr.rx \in Seq(Int) /\ tr.start \in Nat /\ tr.start <= Len(tr.rx) /\ Len(tr.rx) \in Nat
  BY DEF StreamOk, Transports
<1>2. avail > 0 /\ avail \in Nat /\ m \in Nat \ {0} /\ m <= avail
  BY <1>1 DEF Libssh2Recv
<1>3. got = SubSeq(tr.rx, tr.start + 1, tr.start + m)
  BY DEF Libssh2Recv
<1>4. r.t = IF m = avail THEN [tr EXCEPT !.rx = <<>>, !.start = 0] ELSE [tr EXCEPT !.start = @ + m]
  <2>1. r.t = IF [tr EXCEPT !.start = @ + m].start >= Len(tr.rx) THEN [tr EXCEPT !.rx = <<>>, !.start = 0]
              ELSE [tr EXCEPT !.start = @ + m]
    BY DEF Libssh2Recv
  <2>2. [tr EXCEPT !.start = @ + m].start = tr.start + m
    BY <1>1 DEF Transports
  <2>3. tr.start + m >= Len(tr.rx) <=> m = avail
    BY <1>1, <1>2
  <2> HIDE DEF avail, m, r
  <2> QED BY <2>1, <2>2, <2>3
<1> HIDE DEF m, r, u, got, last
<1>5. got \in Seq(Int) /\ Len(got) = m /\ \A i \in 1 .. m : got[i] = tr.rx[tr.start + i]
  <2>1. /\ tr.start + m <= Len(tr.rx) /\ tr.start + m \in Nat /\ tr.start <= tr.start + m
        /\ (tr.start + m) - tr.start = m
    <3>1. m \in Nat /\ m <= Len(tr.rx) - tr.start
      BY <1>2
    <3> QED BY <1>1, <3>1, Within
  <2>2. /\ got \in Seq(Int) /\ Len(got) = (tr.start + m) - tr.start
        /\ \A i \in 1 .. (tr.start + m) - tr.start : got[i] = tr.rx[tr.start + i]
    <3> DEFINE e == tr.start + m
    <3>1. got = SubSeq(tr.rx, tr.start + 1, e) /\ e \in Nat /\ tr.start <= e /\ e <= Len(tr.rx)
      BY <1>3, <2>1, Zenon
    <3> HIDE DEF e
    <3>2. got \in Seq(Int) /\ Len(got) = e - tr.start /\ \A i \in 1 .. e - tr.start : got[i] = tr.rx[tr.start + i]
      <4>1. tr.rx \in Seq(Int) /\ tr.start \in Nat
        BY <1>1, Zenon
      <4> DEFINE g == SubSeq(tr.rx, tr.start + 1, e)
      <4>2. g \in Seq(Int) /\ Len(g) = e - tr.start /\ \A i \in 1 .. e - tr.start : g[i] = tr.rx[tr.start + i]
        BY <3>1, <4>1, SliceAt, Zenon
      <4>3. got = g
        BY <3>1, Zenon
      <4> HIDE DEF g
      <4> QED BY <4>2, <4>3, Zenon
    <3> QED BY <3>2, Zenon DEF e
  <2> QED BY <2>1, <2>2, Zenon
<1>6. last \in Int
  <2>1. m \in 1 .. Len(got)
    BY <1>2, <1>5
  <2> QED BY <1>5, <2>1 DEF last
<1>7. /\ r.t \in Transports /\ r.t.err = tr.err /\ r.t.pcb = tr.pcb
      /\ r.t.rx = (IF m = avail THEN <<>> ELSE tr.rx) /\ r.t.start = IF m = avail THEN 0 ELSE tr.start + m
  <2>1. CASE m = avail
    <3> DEFINE v == [tr EXCEPT !.rx = <<>>]
    <3>1. r.t = [v EXCEPT !.start = 0]
      BY <1>4, <2>1
    <3>2. v \in Transports /\ v.rx = <<>> /\ v.err = tr.err /\ v.pcb = tr.pcb
      <4>1. <<>> \in Seq(Int)
        OBVIOUS
      <4> QED BY <1>1, <4>1 DEF Transports
    <3> HIDE DEF v
    <3>3. r.t \in Transports /\ r.t.start = 0 /\ r.t.rx = v.rx /\ r.t.err = v.err /\ r.t.pcb = v.pcb
      BY <3>1, <3>2 DEF Transports
    <3> QED BY <2>1, <3>2, <3>3
  <2>2. CASE m # avail
    <3>1. tr.start + m \in Nat
      BY <1>1, <1>2
    <3>2. r.t = [tr EXCEPT !.start = tr.start + m]
      BY <1>1, <1>4, <2>2
    <3>3. r.t \in Transports /\ r.t.start = tr.start + m /\ r.t.rx = tr.rx /\ r.t.err = tr.err /\ r.t.pcb = tr.pcb
      BY <1>1, <3>1, <3>2 DEF Transports
    <3> QED BY <2>2, <3>3
  <2> QED BY <2>1, <2>2
<1> DEFINE q == [i \in 1 .. Len(r.t.rx) |-> r.t.rx[i] - last]
<1>8. r.t.rx \in Seq(Int) /\ Len(r.t.rx) \in Nat
  BY <1>7 DEF Transports
<1>9. q \in Seq(Int) /\ Len(q) = Len(r.t.rx) /\ \A i \in 1 .. Len(r.t.rx) : q[i] = r.t.rx[i] - last
  BY <1>6, <1>8
<1>10. u = [r.t EXCEPT !.rx = q]
  BY DEF u, Renumbered
<1> HIDE DEF q
<1>11. u \in Transports /\ u.rx = q /\ u.start = r.t.start /\ u.err = r.t.err /\ u.pcb = r.t.pcb
  BY <1>7, <1>9, <1>10 DEF Transports
<1>12. u.start <= Len(u.rx)
  <2>1. CASE m = avail
    BY <1>7, <1>9, <1>11, <2>1
  <2>2. CASE m # avail
    <3>1. tr.start + m <= Len(tr.rx)
      BY <1>1, <1>2
    <3> QED BY <1>7, <1>9, <1>11, <2>2, <3>1
  <2> QED BY <2>1, <2>2
<1>13. ASSUME InOrder(tr.rx, tr.start, s)
       PROVE  (\A i \in 1 .. Len(got) : got[i] = i) /\ InOrder(u.rx, u.start, s - last)
  <2>1. s = avail /\ \A i \in 1 .. s : tr.rx[tr.start + i] = i
    BY <1>13 DEF InOrder
  <2> HIDE DEF avail
  <2>2. \A i \in 1 .. m : got[i] = i
    <3>1. \A i \in 1 .. m : i \in 1 .. s
      BY <1>1, <1>2, <2>1
    <3> QED BY <1>5, <2>1, <3>1, Zenon
  <2>3. last = m
    BY <1>2, <1>5, <2>2 DEF last
  <2>4. CASE m = avail
    <3>1. u.rx = q /\ Len(q) = 0 /\ u.start = 0 /\ s - last = 0
      BY <1>1, <1>7, <1>9, <1>11, <2>1, <2>3, <2>4
    <3>2. InOrder(q, 0, 0)
      BY <3>1 DEF InOrder
    <3> QED BY <1>5, <2>2, <3>1, <3>2
  <2>5. CASE m # avail
    <3>1. u.rx = q /\ u.start = tr.start + m /\ Len(q) = Len(tr.rx) /\ s - last = s - m
      BY <1>7, <1>9, <1>11, <2>3, <2>5
    <3>2. ASSUME NEW i \in 1 .. s - m PROVE q[tr.start + m + i] = i
      <4>1. m + i \in 1 .. s /\ tr.start + m + i = tr.start + (m + i) /\ tr.start + m + i \in 1 .. Len(tr.rx)
        <5>1. m <= s /\ Len(tr.rx) - tr.start = s
          BY <1>2, <2>1 DEF avail
        <5>2. tr.start \in Nat /\ m \in Nat /\ s \in Int /\ Len(tr.rx) \in Nat
          BY <1>1, <1>2
        <5> QED BY <5>1, <5>2, Shift
      <4>2. tr.rx[tr.start + m + i] = m + i
        BY <2>1, <4>1
      <4>3. q[tr.start + m + i] = tr.rx[tr.start + m + i] - last
        BY <1>7, <1>9, <2>5, <4>1
      <4> QED BY <1>2, <2>3, <4>2, <4>3
    <3>3. Len(tr.rx) - (tr.start + m) = s - m
      BY <1>1, <1>2, <2>1 DEF avail
    <3>4. InOrder(q, tr.start + m, s - m)
      BY <3>1, <3>2, <3>3 DEF InOrder
    <3> QED BY <1>5, <2>2, <3>1, <3>4
  <2> QED BY <2>4, <2>5
<1>14. tr.pcb # "none" /\ ~tr.err => InOrder(tr.rx, tr.start, s)
  BY DEF StreamOk
<1>15. s - last \in Int
  BY <1>1, <1>6
<1>16. StreamOk(u, s - last)
  BY <1>7, <1>11, <1>12, <1>13, <1>14, <1>15 DEF StreamOk
<1> QED BY <1>13, <1>14, <1>16 DEF u, last, got, r

\* the transport is kept or destroyed
LEMMA StreamLeave ==
    ASSUME NEW answer, NEW tr, NEW s, StreamOk(tr, s), Leave(answer, tr)
    PROVE  StreamOk(t', s)
<1>1. t' = tr \/ t' = NoTransport
  BY DEF Leave, Destroy
<1>2. s \in Int
  BY DEF StreamOk
<1> QED BY <1>1, <1>2, NewStream

LEMMA StreamNext == HoldInv /\ StreamInv /\ [Next]_vars => StreamInv'
<1> SUFFICES ASSUME HoldInv, StreamInv, [Next]_vars PROVE StreamInv'
  OBVIOUS
<1>0. StreamOk(t, sent) /\ gap # "silent" /\ t \in Transports /\ sent \in Int
  BY DEF StreamInv, StreamOk
<1>1. CASE ConnectRound
  <2>1. UNCHANGED <<sent, gap>> /\ \E answer : Leave(answer, t)
    BY <1>1 DEF ConnectRound
  <2>2. StreamOk(t', sent)
    BY <1>0, <2>1, StreamLeave
  <2> QED BY <1>0, <2>1, <2>2 DEF StreamInv
<1>2. CASE SendRound
  <2>1. UNCHANGED <<sent, gap>>
    BY <1>2 DEF SendRound
  <2>2. (\E answer : Leave(answer, t)) \/ \E full \in BOOLEAN : t' = [t EXCEPT !.full = full]
    BY <1>2 DEF SendRound
  <2>3. ASSUME NEW full \in BOOLEAN, t' = [t EXCEPT !.full = full] PROVE StreamOk(t', sent)
    <3>1. t' \in Transports /\ t'.rx = t.rx /\ t'.start = t.start /\ t'.pcb = t.pcb /\ t'.err = t.err
      BY <1>0, <2>3 DEF Transports
    <3> QED BY <1>0, <3>1, FlagsOk
  <2>4. StreamOk(t', sent)
    BY <1>0, <2>2, <2>3, StreamLeave
  <2> QED BY <1>0, <2>1, <2>4 DEF StreamInv
<1>3. CASE AnswerRound
  <2>1. job.asked /\ t.pcb # "none"
    BY <1>3 DEF AnswerRound, HoldInv, HoldOk
  <2>2. PICK n \in 1 .. RxSize :
          LET r == Libssh2Recv(t, n)
              left == Renumbered(r.t, r.bytes[Len(r.bytes)])
          IN  /\ r.rc = "data" /\ Use(r.bytes)
              /\ \E answer : IF answer = "data" THEN GoOn(left) ELSE Leave(answer, left)
    BY <1>3 DEF AnswerRound
  <2> DEFINE r == Libssh2Recv(t, n)
             last == r.bytes[Len(r.bytes)]
             left == Renumbered(r.t, last)
  <2>3. n \in Nat \ {0}
    BY RxSizeAssumption
  <2>4. /\ StreamOk(left, sent - last)
        /\ ~t.err => \A i \in 1 .. Len(r.bytes) : r.bytes[i] = i
    BY <1>0, <2>1, <2>2, <2>3, TakeOk
  <2>5. sent' = sent - last
    BY <2>2 DEF Use
  <2>6. gap' # "silent"
    BY <1>0, <2>2, <2>4 DEF Use
  <2>7. PICK answer : GoOn(left) \/ Leave(answer, left)
    BY <2>2
  <2> HIDE DEF left, last, r
  <2>8. StreamOk(t', sent - last)
    BY <2>4, <2>7, StreamLeave DEF GoOn
  <2> QED BY <2>5, <2>6, <2>8 DEF StreamInv
<1>4. CASE EmptyRound
  <2> DEFINE r == Libssh2Recv(t, RxSize)
  <2>1. UNCHANGED <<sent, gap>> /\ (\E answer : Leave(answer, r.t)) /\ r.rc # "data"
    BY <1>4 DEF EmptyRound
  <2>2. Len(t.rx) - t.start = 0 /\ t.start \in Nat /\ Len(t.rx) \in Nat /\ t.rx \in Seq(Int)
    <3>1. t.start \in Nat /\ Len(t.rx) \in Nat /\ t.rx \in Seq(Int) /\ t.start <= Len(t.rx)
      BY <1>0 DEF StreamOk, Transports
    <3>2. ~(Len(t.rx) - t.start > 0)
      BY <2>1 DEF Libssh2Recv
    <3> QED BY <3>1, <3>2
  <2>3. StreamOk(r.t, sent)
    <3> DEFINE u == [t EXCEPT !.rx = <<>>, !.start = 0]
               v == [t EXCEPT !.rx = <<>>]
    <3>1. r.t = u
      <4> DEFINE m == IF Len(t.rx) - t.start < RxSize THEN Len(t.rx) - t.start ELSE RxSize
      <4>1. m = 0
        BY <2>2, RxSizeAssumption
      <4>2. r.t = IF [t EXCEPT !.start = @ + m].start >= Len(t.rx) THEN u ELSE [t EXCEPT !.start = @ + m]
        BY DEF Libssh2Recv
      <4>3. [t EXCEPT !.start = @ + m].start = t.start + m
        BY <1>0 DEF Transports
      <4> HIDE DEF m, u
      <4> QED BY <2>2, <4>1, <4>2, <4>3
    <3>2. v \in Transports /\ v.rx = <<>> /\ v.err = t.err /\ v.pcb = t.pcb
      <4>1. <<>> \in Seq(Int)
        OBVIOUS
      <4> QED BY <1>0, <4>1 DEF Transports
    <3>3. u = [v EXCEPT !.start = 0]
      OBVIOUS
    <3> HIDE DEF u, v
    <3>4. u \in Transports /\ u.start = 0 /\ u.rx = v.rx /\ u.err = v.err /\ u.pcb = v.pcb
      BY <3>2, <3>3 DEF Transports
    <3>5. InOrder(t.rx, t.start, sent) => InOrder(<<>>, 0, sent)
      BY <2>2 DEF InOrder
    <3> QED BY <1>0, <3>1, <3>2, <3>4, <3>5 DEF StreamOk
  <2> HIDE DEF r
  <2>4. StreamOk(t', sent)
    BY <2>1, <2>3, StreamLeave
  <2> QED BY <1>0, <2>1, <2>4 DEF StreamInv
<1>5. CASE Finish
  <2>1. sent' = 0 /\ gap' = "none" /\ t = NoTransport /\ (t' = t \/ t' = NewTransport)
    BY <1>5 DEF Finish, HoldInv, HoldOk
  <2> QED BY <2>1, NewStream DEF StreamInv
<1>6. CASE \E cmd \in Commands, src, dst \in RemoteNames : Command(cmd, src, dst)
  <2>1. sent' = 0 /\ gap' = "none" /\ t' = NewTransport
    BY <1>6 DEF Command
  <2> QED BY <2>1, NewStream DEF StreamInv
<1>7. CASE Connected \/ Acked \/ PeerCloses \/ PeerResets
  <2>1. t.pcb = "live" /\ UNCHANGED <<sent, gap>>
    BY <1>7 DEF Connected, Acked, PeerCloses, PeerResets, Callback
  <2>2. t' \in Transports /\ t'.rx = t.rx /\ t'.start = t.start /\ (t.err => t'.err)
    <3>1. CASE Connected
      BY <1>0, <3>1 DEF Connected, Callback, ConnectedCb, Transports
    <3>2. CASE Acked
      BY <1>0, <3>2 DEF Acked, Callback, SentCb, Transports
    <3>3. CASE PeerCloses
      BY <1>0, <3>3 DEF PeerCloses, Callback, EofCb, Transports
    <3>4. CASE PeerResets
      <4> DEFINE u == [t EXCEPT !.closed = TRUE]
                 v == [u EXCEPT !.err = TRUE]
      <4>1. t' = [v EXCEPT !.pcb = "freed"]
        BY <3>4 DEF PeerResets, Callback, ErrCb
      <4>2. u \in Transports /\ u.rx = t.rx /\ u.start = t.start
        BY <1>0 DEF Transports
      <4> HIDE DEF u
      <4>3. v \in Transports /\ v.rx = t.rx /\ v.start = t.start /\ v.err
        BY <4>2 DEF Transports
      <4> HIDE DEF v
      <4> QED BY <4>1, <4>3 DEF Transports
    <3> QED BY <1>7, <3>1, <3>2, <3>3, <3>4
  <2>3. StreamOk(t', sent)
    BY <1>0, <2>1, <2>2, FlagsOk
  <2> QED BY <1>0, <2>1, <2>3 DEF StreamInv
<1>8. CASE Arrive
  <2>1. gap' = gap
    BY <1>8 DEF Arrive, Callback
  <2>2. PICK chain \in {<<1>>, <<2>>, <<1, 1>>} :
          LET total == IF Len(chain) = 1 THEN chain[1] ELSE chain[1] + chain[2]
              first == Bytes(sent, chain[1])
          IN  /\ sent' = sent + total
              /\ t' = RecvCb(t, IF Len(chain) = 1 THEN <<first>>
                                ELSE <<first, Bytes(sent + chain[1], chain[2])>>)
    BY <1>8 DEF Arrive, Callback
  <2>3. \/ \E n \in {1, 2} : sent' = sent + n /\ t' = RecvCb(t, <<Bytes(sent, n)>>)
        \/ sent' = sent + (1 + 1) /\ t' = RecvCb(t, <<Bytes(sent, 1), Bytes(sent + 1, 1)>>)
    BY <2>2
  <2>4. StreamOk(t', sent')
    BY <1>0, <2>3, RecvCbOk
  <2> QED BY <1>0, <2>1, <2>4 DEF StreamInv
<1>9. CASE TimePasses \/ (\E r \in Roots : Mount(r)) \/ UNCHANGED vars
  <2>1. UNCHANGED <<t, sent, gap>>
    BY <1>9 DEF TimePasses, Mount, vars
  <2> QED BY <2>1 DEF StreamInv
<1> QED BY <1>1, <1>2, <1>3, <1>4, <1>5, <1>6, <1>7, <1>8, <1>9 DEF Next, Worker

\* libssh2 never gets a byte out of order unless t->err is set, for every buffer
\* size and every order of packets and reads (ssh_altcp_recv_cb,
\* ssh_transport_trim, ssh_libssh2_recv)
THEOREM BytesAreInOrder == Spec => []StreamInOrder
<1>1. Init => StreamInv
  BY NewStream DEF Init, StreamInv
<1>2. StreamInv => StreamInOrder
  BY DEF StreamInv, StreamInOrder
<1> QED BY <1>1, <1>2, HoldInit, HoldNext, StreamNext, PTL DEF Spec

-----------------------------------------------------------------------------
(* The file.                                                                 *)

Kinds == {"none", "part", "whole"}

\* the commands an operation may belong to
CmdsOf(op) ==
    CASE op = "read" -> {"cat", "cp_in", "cp_over", "mv_in", "mv_over"}
      [] op = "put" -> {"put", "mv_out"}
      [] op = "write" -> {"cp_over", "mv_over"}
      [] op = "unlink" -> {"mv_in", "mv_over"}
      [] op = "rename" -> {"mv_over"}
      [] OTHER -> {op}

Safe(rm, lc) == lc = "whole" \/ \E x \in DOMAIN rm : rm[x] = "whole"

\* what an operation knows of the copies of the file, and what its result says
OpOk(j, rm, lc, rt) ==
    /\ j.op \in {"get", "read"} =>
          /\ rm[j.file] # "part"
          /\ j.phase = "read" => rm[j.file] = "whole"
          /\ j.rc => j.buf = "whole" /\ rm[j.file] = "whole"
    /\ j.op = "put" => j.buf = "whole" /\ lc = "whole" /\ (j.rc => rm[j.file] = "whole")
    /\ j.op = "write" => j.buf = "whole" /\ rm[<<rt, j.src>>] = "whole" /\ (j.rc => rm[j.file] = "whole")
    /\ j.op = "unlink" => /\ j.cmd = "mv_in" => lc = "whole"
                          /\ j.cmd = "mv_over" => rm[<<rt, j.dst>>] = "whole"
    /\ j.op = "rename" => rm[j.file] # "part"

FileOps == {"get", "read", "put", "write", "unlink", "rename"}

JobOk(j, rt) ==
    /\ j.src \in RemoteNames /\ j.dst \in RemoteNames
    /\ j.file = <<rt, Target(j, j.op)>>
    /\ j.cmd \in CmdsOf(j.op)
    /\ j.cmd \in {"cp_over", "mv_over"} => j.src # j.dst
    /\ j.rc /\ j.op \in FileOps => j.phase \in Ending
    /\ j.phase = "write" => j.off \in 0 .. Chunks - 1

FilesOk(rm, lc, rt) ==
    rm \in [Roots \X RemoteNames -> Kinds] /\ lc \in Kinds /\ rt \in Roots /\ Safe(rm, lc)

FileOk(j, rm, lc, rt) ==
    FilesOk(rm, lc, rt) /\ (j.phase # "idle" => JobOk(j, rt) /\ OpOk(j, rm, lc, rt))

FileInv == ~upset => FileOk(job, remote, local, root)

\* the calls belong to operations
LEMMA PhaseOps ==
    ASSUME HoldInv, job.phase \notin {"idle", "end"}
    PROVE  /\ job.phase = "unlink" => job.op = "unlink"
           /\ job.phase = "rename" => job.op = "rename"
           /\ job.phase \in {"create", "write"} => job.op \in {"put", "write"}
           /\ job.phase \in {"open", "read"} => job.op \in {"get", "read"}
           /\ job.phase \in {"channel_read", "readdir"} => job.op \in {"exec", "ls"}
           /\ job.op \in Ops
<1>1. job.op \in Ops /\ job.phase \in DOMAIN Script[job.op]
  BY DEF HoldInv, HoldOk
<1>2. job.phase \in {"connect"} \cup Around(BodyOf(job.op))
  BY <1>1, ScriptOk DEF Around
<1> QED BY <1>1, <1>2 DEF Around, BodyOf, Ops

\* a call is over
Moved(j, k, answer, rm) ==
    /\ k.cmd = j.cmd /\ k.op = j.op /\ k.src = j.src /\ k.dst = j.dst /\ k.file = j.file
    /\ k.off = 0
    /\ k.phase = "read" => j.phase = "open" /\ answer = "ok"
    /\ j.phase \in Ending \cup {"read", "write", "unlink", "rename"} => k.phase \in Ending
    /\ k.rc <=> (j.rc \/ Succeeds(j, answer))
    /\ k.buf = IF j.phase = "read" /\ answer = "ok" THEN rm[j.file] ELSE j.buf

LEMMA LeaveMoves ==
    ASSUME NEW answer \in Answered, NEW tr, HoldInv, job.phase \notin {"idle", "end"}, Leave(answer, tr)
    PROVE  Moved(job, job', answer, remote)
<1> DEFINE row == Script[job.op][job.phase]
           go == row[answer]
<1>1. job.op \in Ops /\ job.phase \in DOMAIN Script[job.op] /\ DOMAIN job = Fields
  BY DEF HoldInv, HoldOk
<1>2. RowOk(row, job.phase, DOMAIN Script[job.op])
  BY <1>1, ScriptOk DEF TableOk
<1>3. /\ go.to = "read" => job.phase = "open" /\ answer = "ok"
      /\ job.phase \in Ending \cup {"read", "write", "unlink", "rename"} => go.to \in Ending
  <2>1. answer = "ok" \/ answer = "fail" \/ answer = "late"
    BY DEF Answered
  <2>2. GoOk(go, job.phase, DOMAIN Script[job.op])
    BY <1>2, RowOf
  <2>3. go.to = "read" => job.phase = "open" /\ answer = "ok"
    BY <1>2, <2>1 DEF RowOk
  <2> QED BY <2>2, <2>3 DEF GoOk
<1>4. PICK held \in Left(go, tr) :
        job' = [job EXCEPT !.phase = go.to, !.asked = FALSE, !.off = 0, !.held = held,
                         !.rc = @ \/ Succeeds(job, answer),
                         !.buf = IF job.phase = "read" /\ answer = "ok" THEN remote[job.file] ELSE @]
  BY DEF Leave
<1> HIDE DEF go, row
<1>5. /\ job'.cmd = job.cmd /\ job'.op = job.op /\ job'.src = job.src /\ job'.dst = job.dst
      /\ job'.file = job.file /\ job'.phase = go.to /\ job'.off = 0
      /\ job'.rc = (job.rc \/ Succeeds(job, answer))
      /\ job'.buf = IF job.phase = "read" /\ answer = "ok" THEN remote[job.file] ELSE job.buf
  BY <1>1, <1>4 DEF Fields
<1> QED BY <1>3, <1>5 DEF Moved

\* one file of the server changes and another is whole, or the local one is
LEMMA SetFile ==
    ASSUME NEW rm, NEW lc, NEW rt, FilesOk(rm, lc, rt), NEW x, NEW v \in Kinds,
           NEW y \in Roots \X RemoteNames, lc = "whole" \/ (y # x /\ rm[y] = "whole")
    PROVE  FilesOk([rm EXCEPT ![x] = v], lc, rt)
<1> DEFINE rm2 == [rm EXCEPT ![x] = v]
<1>1. rm \in [Roots \X RemoteNames -> Kinds] /\ lc \in Kinds /\ rt \in Roots
  BY DEF FilesOk
<1>2. rm2 \in [Roots \X RemoteNames -> Kinds] /\ (y # x => rm2[y] = rm[y])
  BY <1>1
<1> HIDE DEF rm2
<1>3. Safe(rm2, lc)
  BY <1>2 DEF Safe
<1>4. FilesOk(rm2, lc, rt)
  BY <1>1, <1>2, <1>3 DEF FilesOk
<1> QED BY <1>4 DEF rm2

LEMMA JobMoves ==
    ASSUME HoldInv, job.phase \notin {"idle", "end"}, NEW rt, JobOk(job, rt),
           NEW k, NEW answer, Moved(job, k, answer, remote)
    PROVE  JobOk(k, rt)
<1>1. /\ k.cmd = job.cmd /\ k.op = job.op /\ k.src = job.src /\ k.dst = job.dst /\ k.file = job.file
      /\ k.off = 0
  BY DEF Moved
<1>2. Target(k, k.op) = Target(job, job.op)
  BY <1>1 DEF Target
<1>3. k.rc /\ k.op \in FileOps => k.phase \in Ending
  <2>1. ASSUME k.rc, k.op \in FileOps PROVE k.phase \in Ending
    <3>1. job.rc => job.phase \in Ending
      BY <1>1, <2>1 DEF JobOk
    <3>2. Succeeds(job, answer) => job.phase \in {"read", "write", "unlink", "rename"}
      BY <1>1, <2>1, PhaseOps DEF Succeeds, FileOps
    <3>3. job.rc \/ Succeeds(job, answer)
      BY <2>1 DEF Moved
    <3> QED BY <3>1, <3>2, <3>3 DEF Moved
  <2> QED BY <2>1
<1>4. k.off \in 0 .. Chunks - 1
  BY <1>1, SshAssumption
<1> QED BY <1>1, <1>2, <1>3, <1>4 DEF JobOk

\* what is left alone by a call that changes no file
LEMMA OpMovesStill ==
    ASSUME HoldInv, job.phase \notin {"idle", "end", "unlink", "rename", "create", "write"},
           FilesOk(remote, local, root), JobOk(job, root), OpOk(job, remote, local, root),
           NEW k, NEW answer, Moved(job, k, answer, remote), answer = "ok" => answer \in Answers(job.phase, job)
    PROVE  OpOk(k, remote, local, root)
<1>1. /\ k.cmd = job.cmd /\ k.op = job.op /\ k.src = job.src /\ k.dst = job.dst /\ k.file = job.file
      /\ k.phase = "read" => job.phase = "open" /\ answer = "ok"
      /\ k.rc <=> (job.rc \/ Succeeds(job, answer))
      /\ k.buf = IF job.phase = "read" /\ answer = "ok" THEN remote[job.file] ELSE job.buf
  BY DEF Moved
<1>2. remote[job.file] \in Kinds
  <2>1. job.file \in Roots \X RemoteNames /\ remote \in [Roots \X RemoteNames -> Kinds]
    BY DEF FilesOk, JobOk, Target
  <2> QED BY <2>1
<1>3. CASE job.op \in {"get", "read"}
  <2>1. remote[job.file] # "part" /\ (job.phase = "read" => remote[job.file] = "whole")
        /\ (job.rc => job.buf = "whole" /\ remote[job.file] = "whole")
    BY <1>3 DEF OpOk
  <2>2. k.phase = "read" => remote[job.file] = "whole"
    <3>1. k.phase = "read" => "ok" \in Answers("open", job)
      BY <1>1
    <3>2. "ok" \in Answers("open", job) => remote[job.file] # "none"
      BY DEF Answers
    <3> QED BY <1>2, <2>1, <3>1, <3>2 DEF Kinds
  <2>3. Succeeds(job, answer) => job.phase = "read" /\ answer = "ok"
    BY <1>3, PhaseOps DEF Succeeds
  <2>4. k.rc => k.buf = "whole" /\ remote[job.file] = "whole"
    BY <1>1, <2>1, <2>3
  <2> QED BY <1>1, <1>3, <2>1, <2>2, <2>4 DEF OpOk
<1>4. CASE job.op \in {"put", "write"}
  <2>1. job.phase # "read" /\ ~Succeeds(job, answer)
    BY <1>4, PhaseOps DEF Succeeds
  <2>2. (k.rc <=> job.rc) /\ k.buf = job.buf
    BY <1>1, <2>1
  <2> QED BY <1>1, <1>4, <2>2 DEF OpOk
<1>5. CASE job.op \notin {"get", "read", "put", "write"}
  BY <1>1, <1>5 DEF OpOk
<1> QED BY <1>3, <1>4, <1>5

LEMMA FileMoves ==
    ASSUME HoldInv, job.phase \notin {"idle", "end"}, FileOk(job, remote, local, root),
           NEW k, NEW answer, Moved(job, k, answer, remote), NEW rm \in {remote, Carried(job)},
           answer = "ok" => answer \in Answers(job.phase, job) /\ rm = Carried(job)
    PROVE  FileOk(k, rm, local, root)
<1>0. FilesOk(remote, local, root) /\ JobOk(job, root) /\ OpOk(job, remote, local, root)
  BY DEF FileOk
<1>1. JobOk(k, root)
  BY <1>0, JobMoves
<1>2. /\ k.cmd = job.cmd /\ k.op = job.op /\ k.src = job.src /\ k.dst = job.dst /\ k.file = job.file
      /\ k.rc <=> (job.rc \/ Succeeds(job, answer))
      /\ job.phase # "read" => k.buf = job.buf
  BY DEF Moved
<1>3. /\ remote \in [Roots \X RemoteNames -> Kinds] /\ root \in Roots /\ local \in Kinds
      /\ job.src \in RemoteNames /\ job.dst \in RemoteNames /\ job.file = <<root, Target(job, job.op)>>
  BY <1>0 DEF FilesOk, JobOk
<1> DEFINE from == <<root, job.src>>
           to == <<root, job.dst>>
<1>4. /\ from \in Roots \X RemoteNames /\ to \in Roots \X RemoteNames
      /\ job.src # job.dst => from # to
  BY <1>3
<1>5. CASE job.phase \notin {"unlink", "rename", "create", "write"}
  <2>1. Carried(job) = remote
    BY <1>5 DEF Carried
  <2>2. OpOk(k, remote, local, root)
    BY <1>0, <1>5, OpMovesStill
  <2> QED BY <1>0, <1>1, <2>1, <2>2 DEF FileOk
<1>6. CASE job.phase = "unlink"
  <2>1. job.op = "unlink" /\ job.file = from
    BY <1>3, <1>6, PhaseOps DEF Target
  <2>2. Carried(job) = [remote EXCEPT ![from] = "none"]
    BY <1>6, <2>1 DEF Carried
  <2>3. job.cmd \in {"mv_in", "mv_over"} /\ (job.cmd = "mv_over" => job.src # job.dst)
    BY <1>0, <2>1 DEF JobOk, CmdsOf
  <2>4. (job.cmd = "mv_in" => local = "whole") /\ (job.cmd = "mv_over" => remote[to] = "whole")
    BY <1>0, <2>1 DEF OpOk
  <2> HIDE DEF from, to
  <2>5. local = "whole" \/ (to # from /\ remote[to] = "whole")
    BY <1>4, <2>3, <2>4
  <2>6. FilesOk(Carried(job), local, root)
    <3>1. "none" \in Kinds
      BY DEF Kinds
    <3>2. FilesOk([remote EXCEPT ![from] = "none"], local, root)
      BY <1>0, <1>4, <2>5, <3>1, SetFile, Zenon
    <3> QED BY <2>2, <3>2, Zenon
  <2>7. job.cmd = "mv_over" => rm[to] = "whole"
    BY <1>3, <1>4, <2>2, <2>3, <2>4
  <2>8. OpOk(k, rm, local, root)
    BY <1>2, <2>1, <2>4, <2>7 DEF OpOk, to
  <2> QED BY <1>0, <1>1, <2>6, <2>8 DEF FileOk
<1>7. CASE job.phase = "rename"
  <2>1. job.op = "rename" /\ job.file = from /\ job.cmd = "mv_over" /\ job.src # job.dst
    BY <1>0, <1>3, <1>7, PhaseOps DEF Target, JobOk, CmdsOf
  <2>2. remote[from] # "part" /\ remote[from] \in Kinds
    BY <1>0, <1>3, <1>4, <2>1 DEF OpOk
  <2>3. Carried(job) = IF remote[from] = "none" THEN remote
                       ELSE [[remote EXCEPT ![to] = remote[from]] EXCEPT ![from] = "none"]
    <3>1. job.file[1] = root /\ <<job.file[1], job.dst>> = to
      BY <2>1
    <3> QED BY <1>7, <2>1, <3>1 DEF Carried
  <2> HIDE DEF from, to
  <2>4. CASE remote[from] = "none"
    <3>1. rm = remote
      BY <2>3, <2>4
    <3>2. OpOk(k, remote, local, root)
      BY <1>2, <2>1, <2>2 DEF OpOk
    <3> QED BY <1>0, <1>1, <3>1, <3>2 DEF FileOk
  <2>5. CASE remote[from] # "none"
    <3>1. remote[from] = "whole"
      BY <2>2, <2>5 DEF Kinds
    <3> DEFINE c == Carried(job)
    <3>2. c \in [Roots \X RemoteNames -> Kinds] /\ c[to] = "whole" /\ c[from] = "none"
      BY <1>3, <1>4, <2>1, <2>3, <2>5, <3>1 DEF Kinds
    <3> HIDE DEF c
    <3>3. FilesOk(c, local, root)
      BY <1>3, <1>4, <3>2 DEF FilesOk, Safe
    <3>4. rm = remote \/ rm = c
      BY DEF c
    <3>5. OpOk(k, rm, local, root)
      BY <1>2, <2>1, <2>2, <3>2, <3>4 DEF OpOk
    <3> QED BY <1>0, <1>1, <3>3, <3>4, <3>5 DEF FileOk
  <2> QED BY <2>4, <2>5
<1>8. CASE job.phase \in {"create", "write"}
  <2>1. job.op \in {"put", "write"} /\ job.file = to
    BY <1>3, <1>8, PhaseOps DEF Target
  <2>2. /\ job.op = "write" => job.src # job.dst /\ remote[from] = "whole"
        /\ job.op = "put" => local = "whole"
        /\ job.buf = "whole" /\ k.buf = "whole"
    BY <1>0, <1>2, <1>8, <2>1 DEF OpOk, JobOk, CmdsOf
  <2>3. PICK v \in Kinds : rm = remote \/ rm = [remote EXCEPT ![to] = v]
    BY <1>8, <2>1, <2>2 DEF Carried, Kinds
  <2>4. Succeeds(job, answer) => job.phase = "write" /\ answer = "ok"
    BY <1>8, <2>1 DEF Succeeds
  <2>5. ~job.rc
    BY <1>0, <1>8, <2>1 DEF JobOk, FileOps, Ending
  <2>6. Succeeds(job, answer) => rm[to] = "whole"
    <3>1. ASSUME job.phase = "write", answer = "ok" PROVE rm[to] = "whole"
      <4>1. job.off \in 0 .. Chunks - 1 /\ "ok" \in Answers("write", job)
        BY <1>0, <3>1 DEF JobOk
      <4>2. ~(job.off < Chunks - 1)
        BY <4>1 DEF Answers
      <4>3. job.off + 1 = Chunks
        BY <4>1, <4>2, SshAssumption
      <4>4. rm = [remote EXCEPT ![to] = "whole"]
        BY <2>1, <2>2, <3>1, <4>3 DEF Carried
      <4> QED BY <1>3, <1>4, <4>4
    <3> QED BY <2>4, <3>1
  <2> HIDE DEF from, to
  <2>7. FilesOk(rm, local, root)
    <3>1. local = "whole" \/ (from # to /\ remote[from] = "whole")
      BY <1>4, <2>1, <2>2
    <3>2. FilesOk([remote EXCEPT ![to] = v], local, root)
      BY <1>0, <1>4, <3>1, SetFile, Zenon
    <3> QED BY <1>0, <2>3, <3>2, Zenon
  <2>8. job.op = "write" => rm[from] = "whole"
    BY <1>3, <1>4, <2>2, <2>3
  <2>9. OpOk(k, rm, local, root)
    BY <1>2, <2>1, <2>2, <2>5, <2>6, <2>8 DEF OpOk, from
  <2> QED BY <1>1, <2>7, <2>9 DEF FileOk
<1> QED BY <1>5, <1>6, <1>7, <1>8

\* an operation begins: what it needs of the files at that point
LEMMA FileBegin ==
    ASSUME NEW j, NEW op, NEW lc, DOMAIN j = Fields, FilesOk(remote, lc, root),
           j.src \in RemoteNames, j.dst \in RemoteNames, j.cmd \in CmdsOf(op),
           j.cmd \in {"cp_over", "mv_over"} => j.src # j.dst,
           op \in {"get", "read", "rename"} => remote[<<root, j.src>>] # "part",
           op \in {"put", "write"} => j.buf = "whole",
           op = "put" => lc = "whole",
           op = "write" => remote[<<root, j.src>>] = "whole",
           op = "unlink" /\ j.cmd = "mv_in" => lc = "whole",
           op = "unlink" /\ j.cmd = "mv_over" => remote[<<root, j.dst>>] = "whole"
    PROVE  FileOk(Begin(j, op), remote, lc, root)
<1> DEFINE b == Begin(j, op)
<1>1. /\ b.op = op /\ b.phase = "connect" /\ ~b.rc /\ b.file = <<root, Target(j, op)>>
      /\ b.cmd = j.cmd /\ b.src = j.src /\ b.dst = j.dst /\ b.buf = j.buf
  BY DEF Begin, Fields
<1> HIDE DEF b
<1>2. Target(b, op) = Target(j, op) /\ (op \in {"get", "read", "rename"} => Target(j, op) = j.src)
  BY <1>1 DEF Target
<1>3. JobOk(b, root)
  BY <1>1, <1>2 DEF JobOk
<1>4. OpOk(b, remote, lc, root)
  BY <1>1, <1>2 DEF OpOk
<1>5. FileOk(b, remote, lc, root)
  BY <1>3, <1>4 DEF FileOk
<1> QED BY <1>5 DEF b

LEMMA FileFinish ==
    ASSUME HoldInv, FileOk(job, remote, local, root), Finish
    PROVE  FileOk(job', remote, local', root)
<1>0. job.phase = "end" /\ DOMAIN job = Fields /\ job.op \in Ops
  BY DEF Finish, HoldInv, HoldOk
<1>1. FilesOk(remote, local, root) /\ JobOk(job, root) /\ OpOk(job, remote, local, root)
  BY <1>0 DEF FileOk
<1>2. PICK stored \in BOOLEAN :
         LET next == FollowUp(job, stored)
         IN  /\ local' = LocalAfter(job, stored)
             /\ job' = IF next = "none" THEN [Idle EXCEPT !.lost = Lost(job)] ELSE Begin(job, next)
  BY DEF Finish
<1> DEFINE next == FollowUp(job, stored)
<1>3. /\ remote \in [Roots \X RemoteNames -> Kinds] /\ root \in Roots /\ local \in Kinds
      /\ job.src \in RemoteNames /\ job.dst \in RemoteNames /\ job.file = <<root, Target(job, job.op)>>
      /\ job.cmd \in {"cp_over", "mv_over"} => job.src # job.dst
      /\ job.cmd \in CmdsOf(job.op)
  BY <1>1 DEF FilesOk, JobOk
<1>4. job.file \in Roots \X RemoteNames
  BY <1>3 DEF Target
<1>5. FilesOk(remote, local', root)
  <2>1. CASE local' = local
    BY <1>1, <2>1
  <2>2. CASE job.rc /\ local' = job.buf /\ job.op \in {"get", "read"}
    <3>1. local' = "whole"
      BY <1>1, <2>2 DEF OpOk
    <3> QED BY <1>3, <3>1 DEF FilesOk, Safe, Kinds
  <2>3. CASE job.rc /\ local' = "none" /\ job.cmd = "mv_out"
    <3>1. job.op = "put"
      BY <1>0, <1>3, <2>3 DEF CmdsOf, Ops
    <3>2. remote[job.file] = "whole"
      BY <1>1, <2>3, <3>1 DEF OpOk
    <3> QED BY <1>3, <1>4, <2>3, <3>2 DEF FilesOk, Safe, Kinds
  <2> QED BY <1>2, <2>1, <2>2, <2>3 DEF LocalAfter
<1>6. CASE next = "none"
  <2>1. job'.phase = "idle"
    BY <1>2, <1>6 DEF Idle
  <2> QED BY <1>5, <2>1 DEF FileOk
<1>7. CASE next # "none"
  <2>1. job' = Begin(job, next)
    BY <1>2, <1>7
  <2>2. \/ next = "unlink" /\ job.cmd = "mv_in" /\ job.op = "read" /\ job.rc /\ stored
        \/ next = "write" /\ job.cmd \in {"cp_over", "mv_over"} /\ job.op = "read" /\ job.rc
        \/ next = "read" /\ job.cmd = "mv_over" /\ job.op = "rename"
        \/ next = "unlink" /\ job.cmd = "mv_over" /\ job.op = "write" /\ job.rc
    BY <1>7 DEF FollowUp
  <2> HIDE DEF next
  <2>3. CASE next = "unlink" /\ job.cmd = "mv_in" /\ job.op = "read" /\ job.rc /\ stored
    <3>1. local' = "whole"
      BY <1>1, <1>2, <2>3 DEF LocalAfter, OpOk
    <3>2. job.cmd \in CmdsOf(next)
      BY <2>3 DEF CmdsOf
    <3>3. FileOk(Begin(job, next), remote, local', root)
      BY <1>0, <1>3, <1>5, <2>3, <3>1, <3>2, FileBegin
    <3> QED BY <2>1, <3>3
  <2>4. CASE next = "write" /\ job.cmd \in {"cp_over", "mv_over"} /\ job.op = "read" /\ job.rc
    <3>1. remote[<<root, job.src>>] = "whole" /\ job.buf = "whole"
      BY <1>1, <1>3, <2>4 DEF OpOk, Target
    <3>2. job.cmd \in CmdsOf(next)
      BY <2>4 DEF CmdsOf
    <3>3. FileOk(Begin(job, next), remote, local', root)
      BY <1>0, <1>3, <1>5, <2>4, <3>1, <3>2, FileBegin
    <3> QED BY <2>1, <3>3
  <2>5. CASE next = "read" /\ job.cmd = "mv_over" /\ job.op = "rename"
    <3>1. remote[<<root, job.src>>] # "part"
      BY <1>1, <1>3, <2>5 DEF OpOk, Target
    <3>2. job.cmd \in CmdsOf(next)
      BY <2>5 DEF CmdsOf
    <3>3. FileOk(Begin(job, next), remote, local', root)
      BY <1>0, <1>3, <1>5, <2>5, <3>1, <3>2, FileBegin
    <3> QED BY <2>1, <3>3
  <2>6. CASE next = "unlink" /\ job.cmd = "mv_over" /\ job.op = "write" /\ job.rc
    <3>1. remote[<<root, job.dst>>] = "whole"
      BY <1>1, <1>3, <2>6 DEF OpOk, Target
    <3>2. job.cmd \in CmdsOf(next)
      BY <2>6 DEF CmdsOf
    <3>3. FileOk(Begin(job, next), remote, local', root)
      BY <1>0, <1>3, <1>5, <2>6, <3>1, <3>2, FileBegin
    <3> QED BY <2>1, <3>3
  <2> QED BY <2>2, <2>3, <2>4, <2>5, <2>6
<1> QED BY <1>6, <1>7

LEMMA FileCommand ==
    ASSUME NEW cmd \in Commands, NEW src \in RemoteNames, NEW dst \in RemoteNames, Command(cmd, src, dst),
           FileOk(job, remote, local, root), ~upset'
    PROVE  FileOk(job', remote, local, root)
<1> DEFINE j == [Idle EXCEPT !.cmd = cmd, !.src = src, !.dst = dst, !.buf = local]
           op == FirstOp[cmd]
<1>1. /\ DOMAIN j = Fields /\ j.cmd = cmd /\ j.src = src /\ j.dst = dst /\ j.buf = local
  BY DEF Idle, Fields
<1>2. /\ cmd \in CmdsOf(op) /\ op \notin {"write", "unlink"}
      /\ op = "put" => cmd \in {"put", "mv_out"}
  BY CommandsAssumption DEF FirstOp, CmdsOf
<1>3. /\ remote[<<root, src>>] # "part" /\ local # "part"
      /\ cmd \in {"put", "mv_out"} => local # "none"
      /\ job' = Begin(j, op)
      /\ cmd \in {"cp_over", "mv_over"} => src # dst
  BY DEF Command
<1>4. FilesOk(remote, local, root) /\ local \in Kinds
  BY DEF FileOk, FilesOk
<1>5. op = "put" => local = "whole"
  BY <1>2, <1>3, <1>4 DEF Kinds
<1> HIDE DEF j, op
<1>6. FileOk(Begin(j, op), remote, local, root)
  BY <1>1, <1>2, <1>3, <1>4, <1>5, FileBegin
<1> QED BY <1>3, <1>6

\* a round that only counts on, or notes that the request was sent
LEMMA FileStays ==
    ASSUME FileOk(job, remote, local, root), job.phase # "idle", NEW k,
           \A f \in Fields \ {"asked", "off"} : k[f] = job[f],
           k.phase = "write" => k.off \in 0 .. Chunks - 1
    PROVE  FileOk(k, remote, local, root)
<1>1. /\ k.cmd = job.cmd /\ k.op = job.op /\ k.src = job.src /\ k.dst = job.dst /\ k.file = job.file
      /\ k.phase = job.phase /\ k.rc = job.rc /\ k.buf = job.buf
  BY DEF Fields
<1>2. FilesOk(remote, local, root) /\ JobOk(job, root) /\ OpOk(job, remote, local, root)
  BY DEF FileOk
<1>3. JobOk(k, root)
  <2>1. Target(k, k.op) = Target(job, job.op)
    BY <1>1 DEF Target
  <2> QED BY <1>1, <1>2, <2>1 DEF JobOk
<1>4. OpOk(k, remote, local, root)
  BY <1>1, <1>2 DEF OpOk
<1> QED BY <1>2, <1>3, <1>4 DEF FileOk

LEMMA FileNext == HoldInv /\ FileInv /\ [Next]_vars => FileInv'
<1> SUFFICES ASSUME HoldInv, FileInv, [Next]_vars, ~upset' PROVE FileOk(job', remote', local', root')
  BY DEF FileInv
<1>0. ~upset /\ FileOk(job, remote, local, root)
  <2>1. ~upset
    <3>1. CASE ConnectRound \/ SendRound \/ AnswerRound \/ EmptyRound \/ Finish
      BY <3>1 DEF ConnectRound, SendRound, AnswerRound, EmptyRound, Finish
    <3>2. CASE \E cmd \in Commands, src, dst \in RemoteNames : Command(cmd, src, dst)
      BY <3>2 DEF Command
    <3>3. CASE Connected \/ Arrive \/ Acked \/ PeerCloses \/ PeerResets \/ TimePasses \/ UNCHANGED vars
      BY <3>3 DEF Connected, Arrive, Acked, PeerCloses, PeerResets, Callback, TimePasses, vars
    <3>4. CASE \E r \in Roots : Mount(r)
      BY <3>4 DEF Mount
    <3> QED BY <3>1, <3>2, <3>3, <3>4 DEF Next, Worker
  <2> QED BY <2>1 DEF FileInv
<1>1. /\ DOMAIN job = Fields
      /\ job.asked => job.phase \notin {"idle", "end", "connect"}
  BY DEF HoldInv, HoldOk
<1>2. CASE ConnectRound
  <2>1. /\ job.phase = "connect" /\ UNCHANGED <<remote, local, root>>
        /\ \E answer \in Answered : Leave(answer, t)
    BY <1>2 DEF ConnectRound, Answered
  <2>2. PICK answer \in Answered : Leave(answer, t)
    BY <2>1
  <2>3. Moved(job, job', answer, remote)
    BY <2>1, <2>2, LeaveMoves
  <2>4. Carried(job) = remote /\ (answer = "ok" => answer \in Answers(job.phase, job))
    BY <2>1 DEF Carried, Answers
  <2>5. FileOk(job', remote, local, root)
    BY <1>0, <2>1, <2>3, <2>4, FileMoves
  <2> QED BY <2>1, <2>5
<1>3. CASE SendRound
  <2>1. job.phase \notin {"idle", "end"} /\ UNCHANGED <<remote, local, root>>
    BY <1>3 DEF SendRound
  <2>2. \/ \E answer \in Answered \ {"ok"} : Leave(answer, t)
        \/ job.phase = "disconnect" /\ Leave("ok", t)
        \/ job' = [job EXCEPT !.asked = TRUE]
    BY <1>3 DEF SendRound, Answered
  <2>3. ASSUME NEW answer \in Answered \ {"ok"}, Leave(answer, t)
        PROVE  FileOk(job', remote', local', root')
    <3>1. Moved(job, job', answer, remote)
      BY <2>1, <2>3, LeaveMoves
    <3>2. FileOk(job', remote, local, root)
      BY <1>0, <2>1, <3>1, FileMoves
    <3> QED BY <2>1, <3>2
  <2>4. CASE job.phase = "disconnect" /\ Leave("ok", t)
    <3>1. Moved(job, job', "ok", remote)
      BY <2>1, <2>4, LeaveMoves DEF Answered
    <3>2. Carried(job) = remote /\ "ok" \in Answers(job.phase, job)
      BY <2>4 DEF Carried, Answers
    <3>3. FileOk(job', remote, local, root)
      BY <1>0, <2>1, <3>1, <3>2, FileMoves
    <3> QED BY <2>1, <3>3
  <2>5. CASE job' = [job EXCEPT !.asked = TRUE]
    <3>1. \A f \in Fields \ {"asked", "off"} : job'[f] = job[f]
      BY <1>1, <2>5
    <3>2. job'.phase = "write" => job'.off \in 0 .. Chunks - 1
      BY <1>0, <1>1, <2>5 DEF FileOk, JobOk, Fields
    <3>3. FileOk(job', remote, local, root)
      BY <1>0, <2>1, <3>1, <3>2, FileStays
    <3> QED BY <2>1, <3>3
  <2> QED BY <2>2, <2>3, <2>4, <2>5
<1>4. CASE AnswerRound
  <2>1. job.phase \notin {"idle", "end"} /\ UNCHANGED <<local, root>>
    BY <1>1, <1>4 DEF AnswerRound
  <2>2. PICK tr : \E answer \in Answers(job.phase, job) \cup {"fail"} :
             /\ IF answer = "data" THEN GoOn(tr) ELSE Leave(answer, tr)
             /\ remote' \in {Carried(job)} \cup (IF answer = "fail" THEN {remote} ELSE {})
    BY <1>4 DEF AnswerRound
  <2>3. PICK answer \in Answers(job.phase, job) \cup {"fail"} :
             /\ IF answer = "data" THEN GoOn(tr) ELSE Leave(answer, tr)
             /\ remote' \in {Carried(job)} \cup (IF answer = "fail" THEN {remote} ELSE {})
    BY <2>2
  <2>4. CASE answer = "data"
    <3>1. job' = [job EXCEPT !.off = @ + 1, !.asked = FALSE] /\ remote' = Carried(job)
      BY <2>3, <2>4 DEF GoOn
    <3>2. "data" \in Answers(job.phase, job)
      BY <2>4
    <3>3. /\ job.phase \in {"read", "readdir", "channel_read", "write"}
          /\ job.phase = "write" => job.off < Chunks - 1
      BY <3>2 DEF Answers
    <3>4. job.phase = "write" => job.off \in 0 .. Chunks - 1
      BY <1>0 DEF FileOk, JobOk
    <3>5. Carried(job) = remote
      <4>1. job.phase = "write" => job.off + 1 # Chunks
        BY <3>3, <3>4, SshAssumption
      <4> QED BY <3>3, <4>1 DEF Carried
    <3>6. \A f \in Fields \ {"asked", "off"} : job'[f] = job[f]
      BY <1>1, <3>1
    <3>7. job'.phase = job.phase /\ job'.off = job.off + 1
      BY <1>1, <3>1 DEF Fields
    <3>8. job'.phase = "write" => job'.off \in 0 .. Chunks - 1
      BY <3>3, <3>4, <3>7, SshAssumption
    <3>9. FileOk(job', remote, local, root)
      BY <1>0, <2>1, <3>6, <3>8, FileStays
    <3> QED BY <2>1, <3>1, <3>5, <3>9
  <2>5. CASE answer # "data"
    <3>1. Leave(answer, tr)
      BY <2>3, <2>5
    <3>0. answer \in Answered
      BY <2>5 DEF Answers, Answered
    <3>2. Moved(job, job', answer, remote)
      BY <2>1, <3>0, <3>1, LeaveMoves
    <3>3. remote' \in {remote, Carried(job)} /\ (answer = "ok" => answer \in Answers(job.phase, job) /\ remote' = Carried(job))
      BY <2>3
    <3>4. FileOk(job', remote', local, root)
      BY <1>0, <2>1, <3>2, <3>3, FileMoves
    <3> QED BY <2>1, <3>4
  <2> QED BY <2>4, <2>5
<1>5. CASE EmptyRound
  <2>1. job.phase \notin {"idle", "end"} /\ UNCHANGED <<local, root>> /\ remote' \in {remote, Carried(job)}
    BY <1>1, <1>5 DEF EmptyRound
  <2>a. PICK answer \in Answered \ {"ok"} : \E tr : Leave(answer, tr)
    BY <1>5 DEF EmptyRound, Answered
  <2>2. PICK tr : Leave(answer, tr)
    BY <2>a
  <2>3. Moved(job, job', answer, remote)
    BY <2>1, <2>2, LeaveMoves
  <2>4. FileOk(job', remote', local, root)
    BY <1>0, <2>1, <2>3, FileMoves
  <2> QED BY <2>1, <2>4
<1>6. CASE Finish
  <2>1. UNCHANGED <<remote, root>>
    BY <1>6 DEF Finish
  <2>2. FileOk(job', remote, local', root)
    BY <1>0, <1>6, FileFinish
  <2> QED BY <2>1, <2>2
<1>7. ASSUME NEW cmd \in Commands, NEW src \in RemoteNames, NEW dst \in RemoteNames, Command(cmd, src, dst)
      PROVE  FileOk(job', remote', local', root')
  <2>1. UNCHANGED <<remote, local, root>>
    BY <1>7 DEF Command
  <2>2. FileOk(job', remote, local, root)
    BY <1>0, <1>7, FileCommand
  <2> QED BY <2>1, <2>2
<1>8. CASE Connected \/ Arrive \/ Acked \/ PeerCloses \/ PeerResets \/ TimePasses \/ UNCHANGED vars
  <2>1. UNCHANGED <<job, remote, local, root>>
    BY <1>8 DEF Connected, Arrive, Acked, PeerCloses, PeerResets, Callback, TimePasses, vars
  <2> QED BY <1>0, <2>1
<1>9. ASSUME NEW r \in Roots, Mount(r)
      PROVE  FileOk(job', remote', local', root')
  <2>1. job.phase = "idle" /\ root' = r /\ UNCHANGED <<job, remote, local>>
    BY <1>9 DEF Mount
  <2>3. FileOk(job, remote, local, r)
    BY <1>0, <2>1 DEF FileOk, FilesOk
  <2> QED BY <2>1, <2>3
<1> QED BY <1>2, <1>3, <1>4, <1>5, <1>6, <1>7, <1>8, <1>9 DEF Next, Worker

LEMMA FileInit == Init => FileInv
<1> SUFFICES ASSUME Init PROVE FileOk(job, remote, local, root)
  BY DEF FileInv
<1>1. job.phase = "idle" /\ root \in Roots /\ local \in {"none", "whole"}
  BY SshAssumption DEF Init, Idle
<1>2. PICK x \in {root} \X RemoteNames :
         remote = [y \in Roots \X RemoteNames |-> IF y = x /\ local = "none" THEN "whole" ELSE "none"]
  BY DEF Init
<1>3. x \in Roots \X RemoteNames
  BY <1>1, <1>2
<1>4. remote \in [Roots \X RemoteNames -> Kinds] /\ (local = "none" => remote[x] = "whole")
  BY <1>2, <1>3 DEF Kinds
<1>5. FilesOk(remote, local, root)
  BY <1>1, <1>3, <1>4 DEF FilesOk, Safe, Kinds
<1> QED BY <1>1, <1>5 DEF FileOk

\* cp, mv, get and put leave a whole copy of the file at every moment, wherever
\* the connection breaks and whether or not the server carried out a request it
\* did not answer (copy_between_paths, the mv command, ssh_client_sftp_*)
THEOREM FileIsNeverLost == Spec => []FileNeverLost
<1>1. FileInv => FileNeverLost
  BY DEF FileInv, FileOk, FilesOk, Safe, FileNeverLost
<1> QED BY <1>1, HoldInit, HoldNext, FileInit, FileNext, PTL DEF Spec

=============================================================================
