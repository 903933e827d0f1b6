---------------------------- MODULE FetchProofs ----------------------------
(***************************************************************************)
(* Proofs about module Fetch: downloads and pages, for any number of       *)
(* terminals, requests and connections, any answers and any limits.        *)
(*                                                                         *)
(* The callbacks are operators on one record of what they share, so the    *)
(* argument goes operator by operator: each keeps NetInv, what holds of    *)
(* that record between two callbacks, and each Keeps what a save has read. *)
(***************************************************************************)
EXTENDS Fetch, SequenceTheorems, TLAPS

-----------------------------------------------------------------------------
(* The invariant.                                                           *)

NetFields == {"job", "save", "conns", "asked", "ns", "next"}

JobFields ==
    {"id", "pending", "active", "done", "success", "stage", "late", "resolve", "addr", "pcb",
     "header_done", "status", "clen", "body", "kind", "owner", "save", "orphans", "sent"}

SaveFields ==
    {"active", "failed", "written", "flushed", "first", "pending", "phase", "clash", "disturbed", "full"}

NsFields ==
    {"waiting", "q", "loading", "ready", "has", "img", "map", "url", "reset", "used", "hasty", "upset"}

ConnFields == {"open", "hdr", "sent", "resp"}

Fields(n) ==
    /\ DOMAIN n = NetFields
    /\ DOMAIN n.job = JobFields /\ DOMAIN n.save = SaveFields /\ DOMAIN n.ns = NsFields

(* Requests, connections and what is counted have numbers. *)
Shape(n) ==
    /\ Fields(n)
    /\ n.next \in Nat \ {0} /\ n.job.id \in Nat /\ n.job.id < n.next
    /\ n.job.body \in Seq(Nat) /\ n.job.sent \in Nat
    /\ n.job.resolve \in {"no", "wanted", "asked"}
    /\ n.ns.q \in Seq(Nat)
    /\ \A c \in DOMAIN n.conns : c \in Nat \ {0} /\ c < n.next
    /\ \A c \in DOMAIN n.conns : DOMAIN n.conns[c] = ConnFields /\ n.conns[c].sent \in Nat

(* The pages b knows the map of: actions may go to them, or went there. *)
Targets(b) == {b.map, b.img, b.url} \cup {b.q[i] : i \in 1 .. Len(b.q)}

Numbers(b) == b.used \cup Targets(b)

Delivered(x) == x.hdr = "sent" /\ ~ (x.sent < x.resp.len)

(* A connection that may still bring its page has a number b does not know:  *)
(* the map that comes with it is a new one.                                  *)
Numbered(n) ==
    /\ \A x \in Numbers(n.ns) : x \in Nat /\ x < n.next
    /\ \A c \in DOMAIN n.conns : c \in Numbers(n.ns) => Delivered(n.conns[c])
    /\ n.job.pending => ~n.job.active /\ n.job.id # 0 /\ n.job.id \notin Numbers(n.ns)

(* Once the answer to the last action is there, the map, or the image that    *)
(* stands in for it, is one no action went to.                               *)
Unused(b) ==
    ~b.waiting =>
        /\ b.img # 0 => b.img \notin b.used
        /\ b.map # 0 => b.map \notin b.used
        /\ b.map = 0 => b.url = 0

(* So are the targets of the queued actions, where they stand in for it.      *)
Fresh(b) ==
    ~b.waiting /\ b.map = 0 => \A i \in 1 .. Len(b.q) : b.q[i] # 0 => b.q[i] \notin b.used

Tidy(b) ==
    /\ ~b.ready => b.q = <<>>
    /\ b.map # 0 => b.has
    /\ b.waiting => b.map = 0

Calm(b) == ~b.hasty /\ Unused(b) /\ (~b.loading => Fresh(b)) /\ (b.reset => b.waiting)

Busy(b) == b.waiting \/ b.loading \/ ~b.ready

(* Unless something went wrong on the way, a request of the browser keeps the *)
(* gate of ns_process_queued_actions shut; an image is only asked for when    *)
(* the gate may open behind it.                                              *)
Gate(n) ==
    /\ n.job.owner = Browser => ~n.job.pending
    /\ Tidy(n.ns)
    /\ ~n.ns.upset =>
          /\ Calm(n.ns)
          /\ n.job.owner = Browser /\ n.job.active => Busy(n.ns)
          /\ n.ns.waiting => n.job.owner = Browser /\ n.job.active /\ n.job.kind = "page"
          /\ n.job.kind = "image" => Fresh(n.ns)

(* k units of connection c *)
Units(k, c) == [i \in 1 .. k |-> c]

Alone(n) == n.job.kind # "page" /\ ~n.job.orphans

(* Without callbacks of earlier requests in the way: the only connection is   *)
(* the job's own, and the body is what it brought.                           *)
Whole(n) ==
    Alone(n) =>
        /\ DOMAIN n.conns \subseteq {n.job.id}
        /\ n.job.pending =>
              /\ DOMAIN n.conns = {} /\ ~n.job.header_done /\ ~n.job.success
              /\ n.job.body = <<>> /\ n.job.sent = 0
        /\ n.job.id \in DOMAIN n.conns =>
              /\ n.job.pcb = n.job.id /\ n.job.resolve = "no" /\ ~n.job.pending
              /\ ~n.job.success
              /\ n.job.done => ~n.job.header_done
              /\ ~n.job.done /\ ~n.job.header_done =>
                    n.conns[n.job.id].hdr # "sent" /\ n.job.body = <<>> /\ n.job.sent = 0
              /\ ~n.job.done /\ n.job.header_done =>
                    n.conns[n.job.id].hdr = "sent" /\ n.job.body = Units(n.job.sent, n.job.id)
        /\ n.job.done /\ n.job.success => n.job.body = Units(n.job.sent, n.job.id)

NetInv(n) == Shape(n) /\ Numbered(n) /\ Gate(n) /\ Whole(n)

(* What wget_save_step has stored is the beginning of the body; a block stays *)
(* back until its successor is known; with the entry written, f is the body. *)
Storing(s, body, f) ==
    /\ s.written \in Seq(Nat) /\ Len(s.written) <= Len(body)
    /\ \A i \in 1 .. Len(s.written) : s.written[i] = body[i]
    /\ \/ /\ s.phase = 0 /\ s.written = <<>> /\ ~s.pending /\ s.flushed = 0
       \/ /\ s.phase = 0 /\ s.written # <<>> /\ s.pending /\ s.flushed = Len(s.written) - 1
       \/ /\ s.phase = 2 /\ Len(s.written) = Len(body) /\ ~s.pending
          /\ ~s.disturbed => f = body

Stored(n, f) ==
    n.save.active /\ ~n.save.failed /\ ~n.save.clash /\ ~n.save.full =>
        n.job.done /\ Storing(n.save, n.job.body, f)

(* From n to m either the job is the same, and a finished body untouched, or  *)
(* another one was queued, and a save under way knows of the clash.          *)
Keeps(n, m) ==
    /\ n.next <= m.next
    /\ \/ /\ m.job.id = n.job.id /\ m.job.save = n.job.save /\ m.save = n.save
          /\ n.job.done => m.job.done /\ m.job.body = n.job.body
       \/ /\ n.next <= m.job.id
          /\ m.save.active = n.save.active /\ m.save.clash = n.save.active

-----------------------------------------------------------------------------

(* What an operator changes: m is n but for the fields F.                   *)

NetBut(n, m, F) == DOMAIN m = NetFields /\ \A f \in NetFields \ F : m[f] = n[f]
JobBut(n, m, F) == DOMAIN m.job = JobFields /\ \A f \in JobFields \ F : m.job[f] = n.job[f]
NsBut(n, m, F) == DOMAIN m.ns = NsFields /\ \A f \in NsFields \ F : m.ns[f] = n.ns[f]

(* wget_finish(0, ...) *)
Failed(n, m) ==
    /\ NetBut(n, m, {"job", "ns"})
    /\ JobBut(n, m, {"success", "done", "active", "stage"})
    /\ m.job.done /\ ~m.job.success /\ ~m.job.active
    /\ NsBut(n, m, {"upset"})
    /\ m.ns.upset <=> n.ns.upset \/ n.job.owner = Browser

LEMMA FinishFailedFields ==
    ASSUME NEW n, Fields(n)
    PROVE  Failed(n, FinishFailed(n))
BY DEF Fields, FinishFailed, Failed, NetBut, JobBut, NsBut, NetFields, JobFields, NsFields

(* wget_close_pcb *)
Closing(n, m) ==
    /\ NetBut(n, m, {"job", "conns"})
    /\ JobBut(n, m, {"pcb"}) /\ m.job.pcb = 0
    /\ DOMAIN m.conns = DOMAIN n.conns \ {n.job.pcb}
    /\ \A c \in DOMAIN m.conns : m.conns[c] = n.conns[c]

LEMMA ClosePcbFields ==
    ASSUME NEW n, Fields(n)
    PROVE  Closing(n, ClosePcb(n))
BY DEF Fields, ClosePcb, Without, Closing, NetBut, JobBut, NetFields, JobFields

(* What wget_kick_if_needed does to a job that is due. *)
Refused(n, m) ==
    /\ NetBut(n, m, {"job", "ns"})
    /\ JobBut(n, m, {"pending", "resolve", "addr", "success", "done", "active", "stage", "late"})
    /\ m.job.done /\ ~m.job.success /\ ~m.job.active /\ ~m.job.pending
    /\ m.job.resolve = "no"
    /\ NsBut(n, m, {"upset"})
    /\ m.ns.upset <=> n.ns.upset \/ n.job.owner = Browser

Started(n, m) ==
    /\ NetBut(n, m, {"job", "conns"})
    /\ JobBut(n, m, {"pending", "resolve", "addr", "active", "stage", "late", "pcb"})
    /\ m.job.active /\ ~m.job.pending /\ m.job.resolve = "no" /\ m.job.pcb = n.job.id
    /\ DOMAIN m.conns = DOMAIN n.conns \cup {n.job.id}
    /\ m.conns[n.job.id] = NewConn
    /\ \A c \in DOMAIN n.conns : c # n.job.id => m.conns[c] = n.conns[c]

Asked(n, m) ==
    /\ NetBut(n, m, {"job", "asked"})
    /\ JobBut(n, m, {"resolve", "stage"}) /\ m.job.resolve = "asked"

Due(n) == n.job.pending /\ ~n.job.active

LEMMA StartFields ==
    ASSUME NEW n, NEW on, NEW m \in StartWithAddr(on), Fields(n), ~n.job.active,
           NetBut(n, on, {"job"}), JobBut(n, on, {"pending", "resolve", "addr", "stage"}),
           ~on.job.pending, on.job.resolve = "no"
    PROVE  Refused(n, m) \/ Started(n, m)
<1> DEFINE up == [on EXCEPT !.job.active = TRUE, !.job.stage = "CONNECT", !.job.late = FALSE]
           c  == on.job.id
           st == [up EXCEPT !.job.pcb = c,
                            !.conns = [d \in DOMAIN @ \cup {c} |-> IF d = c THEN NewConn ELSE @[d]]]
<1>1. /\ NetBut(n, up, {"job"}) /\ JobBut(n, up, {"pending", "resolve", "addr", "active", "stage", "late"})
      /\ ~up.job.pending /\ up.job.resolve = "no" /\ up.job.active /\ c = n.job.id
  BY DEF Fields, NetBut, JobBut, NetFields, JobFields
<1>2. m = FinishFailed(up) \/ m = st
  BY DEF StartWithAddr, JobBut, JobFields
<1>3. Fields(up)
  BY <1>1 DEF Fields, NetBut, JobBut, NetFields
<1>4. CASE m = FinishFailed(up)
  <2>1. Failed(up, m)
    BY <1>3, <1>4, FinishFailedFields
  <2> QED BY <2>1, <1>1, <1>3 DEF Failed, Refused, Fields, NetBut, JobBut, NsBut, NetFields, JobFields, NsFields
<1>5. CASE m = st
  <2> HIDE DEF up
  <2>1. DOMAIN st = NetFields /\ DOMAIN st.job = JobFields
    BY <1>3 DEF Fields, NetFields, JobFields
  <2>2. /\ NetBut(up, st, {"job", "conns"}) /\ JobBut(up, st, {"pcb"}) /\ st.job.pcb = c
    BY <1>3 DEF Fields, NetBut, JobBut, NetFields, JobFields
  <2>3. st.conns = [d \in DOMAIN up.conns \cup {c} |-> IF d = c THEN NewConn ELSE up.conns[d]]
    BY <1>3 DEF Fields, NetFields
  <2>4. up.conns = n.conns
    BY <1>1 DEF NetBut, NetFields
  <2> HIDE DEF st
  <2> QED BY <2>1, <2>2, <2>3, <2>4, <1>1, <1>5 DEF Started, NetBut, JobBut, NetFields, JobFields
<1> QED BY <1>2, <1>4, <1>5

LEMMA KickFields ==
    ASSUME NEW n, NEW m \in Kick(n), Shape(n)
    PROVE  \/ m = n /\ (Due(n) => n.job.resolve # "no")
           \/ Due(n) /\ (Refused(n, m) \/ Started(n, m))
           \/ Due(n) /\ Asked(n, m) /\ n.job.resolve # "no"
<1> DEFINE taken == [n EXCEPT !.job.pending = FALSE]
           known == [taken EXCEPT !.job.resolve = "no", !.job.addr = n.job.id, !.job.stage = "CONNECT"]
           gone  == [taken EXCEPT !.job.resolve = "no"]
           ask   == [n EXCEPT !.job.resolve = "asked", !.job.stage = "DNS", !.asked = @ \cup {n.job.id}]
<1>0. Fields(n)
  BY DEF Shape
<1>1. CASE ~n.job.pending \/ n.job.active \/ n.job.resolve = "asked"
  BY <1>1 DEF Kick, Due
<1>2. CASE ~(~n.job.pending \/ n.job.active \/ n.job.resolve = "asked")
  <2>1. Due(n)
    BY <1>2 DEF Due
  <2>2. /\ NetBut(n, taken, {"job"}) /\ JobBut(n, taken, {"pending"}) /\ ~taken.job.pending
    BY <1>0 DEF Fields, NetBut, JobBut, NetFields, JobFields
  <2>3. /\ NetBut(n, known, {"job"}) /\ JobBut(n, known, {"pending", "resolve", "addr", "stage"})
        /\ ~known.job.pending /\ known.job.resolve = "no"
    BY <1>0 DEF Fields, NetBut, JobBut, NetFields, JobFields
  <2>4. /\ NetBut(n, gone, {"job"}) /\ JobBut(n, gone, {"pending", "resolve"})
        /\ ~gone.job.pending /\ gone.job.resolve = "no"
    BY <1>0 DEF Fields, NetBut, JobBut, NetFields, JobFields
  <2>5. CASE n.job.resolve = "wanted"
    <3>1. m = ask \/ m \in StartWithAddr(known) \/ m = FinishFailed(gone)
      BY <1>2, <2>5 DEF Kick
    <3>2. CASE m = ask
      <4>1. Asked(n, ask)
        BY <1>0 DEF Asked, Fields, NetBut, JobBut, NetFields, JobFields
      <4> QED BY <4>1, <3>2, <2>1, <2>5
    <3>3. CASE m \in StartWithAddr(known)
      <4> HIDE DEF known
      <4>1. JobBut(n, known, {"pending", "resolve", "addr", "stage"})
        BY <2>3
      <4> QED BY <3>3, <2>3, <1>2, <1>0, <2>1, StartFields
    <3>4. CASE m = FinishFailed(gone)
      <4>1. Fields(gone)
        BY <2>4, <1>0 DEF Fields, NetBut, JobBut, NetFields, JobFields
      <4>2. Failed(gone, m)
        BY <4>1, <3>4, FinishFailedFields
      <4> HIDE DEF gone
      <4>3. Refused(n, m)
        BY <4>1, <4>2, <2>4 DEF Failed, Refused, Fields, NetBut, JobBut, NsBut, NetFields, JobFields, NsFields
      <4> QED BY <4>3, <2>1
    <3> QED BY <3>1, <3>2, <3>3, <3>4
  <2>6. CASE n.job.resolve # "wanted"
    <3>1. n.job.resolve = "no"
      BY <1>2, <2>6 DEF Shape
    <3>2. taken.job.resolve = "no" /\ JobBut(n, taken, {"pending", "resolve", "addr", "stage"})
      BY <2>2, <3>1 DEF JobBut, JobFields
    <3>3. m = FinishFailed(taken) \/ m \in StartWithAddr(taken)
      BY <1>2, <2>6 DEF Kick
    <3> HIDE DEF taken
    <3>4. CASE m = FinishFailed(taken)
      <4>1. Fields(taken)
        BY <2>2, <1>0 DEF Fields, NetBut, JobBut, NetFields, JobFields
      <4>2. Failed(taken, m)
        BY <4>1, <3>4, FinishFailedFields
      <4>3. Refused(n, m)
        BY <4>1, <4>2, <2>2, <3>2 DEF Failed, Refused, Fields, NetBut, JobBut, NsBut, NetFields, JobFields, NsFields
      <4> QED BY <4>3, <2>1
    <3>5. CASE m \in StartWithAddr(taken)
      BY <3>5, <2>2, <3>2, <1>2, <1>0, <2>1, StartFields
    <3> QED BY <3>3, <3>4, <3>5
  <2> QED BY <2>5, <2>6
<1> QED BY <1>1, <1>2

-----------------------------------------------------------------------------
(* Starting requests keeps all but the gate, which depends on who starts.   *)

Sound(n) == Shape(n) /\ Numbered(n) /\ Whole(n)

LEMMA NewConnFields ==
    /\ DOMAIN NewConn = ConnFields /\ NewConn.sent = 0 /\ NewConn.hdr = "none"
BY DEF NewConn, ConnFields

LEMMA StartedSound ==
    ASSUME NEW n, NEW m, Sound(n), Due(n), Started(n, m)
    PROVE  Sound(m)
<1> USE DEF Sound, Due
<1>1. /\ m.save = n.save /\ m.ns = n.ns /\ m.next = n.next /\ DOMAIN m = NetFields
  BY DEF Started, NetBut, NetFields
<1>2. /\ DOMAIN m.job = JobFields
      /\ m.job.id = n.job.id /\ m.job.kind = n.job.kind /\ m.job.orphans = n.job.orphans
      /\ m.job.done = n.job.done /\ m.job.success = n.job.success
      /\ m.job.header_done = n.job.header_done /\ m.job.body = n.job.body /\ m.job.sent = n.job.sent
  BY DEF Started, JobBut, JobFields
<1>3. /\ ~m.job.pending /\ m.job.resolve = "no" /\ m.job.pcb = m.job.id
      /\ DOMAIN m.conns = DOMAIN n.conns \cup {m.job.id}
      /\ m.conns[m.job.id] = NewConn
      /\ \A c \in DOMAIN n.conns : c # m.job.id => m.conns[c] = n.conns[c]
  BY <1>2 DEF Started
<1>4. Shape(m)
  BY <1>1, <1>2, <1>3, NewConnFields DEF Shape, Fields, Numbered
<1>5. Numbered(m)
  BY <1>1, <1>2, <1>3 DEF Numbered
<1>6. Whole(m)
  BY <1>1, <1>2, <1>3, NewConnFields DEF Whole, Alone
<1> QED BY <1>4, <1>5, <1>6

LEMMA RefusedSound ==
    ASSUME NEW n, NEW m, Sound(n), Due(n), Refused(n, m)
    PROVE  Sound(m)
<1> USE DEF Sound, Due
<1>1. m.save = n.save /\ m.conns = n.conns /\ m.next = n.next /\ DOMAIN m = NetFields
  BY DEF Refused, NetBut, NetFields
<1>2. /\ DOMAIN m.job = JobFields
      /\ m.job.id = n.job.id /\ m.job.kind = n.job.kind /\ m.job.orphans = n.job.orphans
      /\ m.job.pcb = n.job.pcb
      /\ m.job.header_done = n.job.header_done /\ m.job.body = n.job.body /\ m.job.sent = n.job.sent
  BY DEF Refused, JobBut, JobFields
<1>3. DOMAIN m.ns = NsFields /\ m.ns.q = n.ns.q /\ Numbers(m.ns) = Numbers(n.ns)
  BY DEF Refused, NsBut, NsFields, Numbers, Targets
<1>4. Shape(m)
  BY <1>1, <1>2, <1>3 DEF Shape, Fields, Refused
<1>5. Numbered(m)
  BY <1>1, <1>2, <1>3 DEF Numbered, Refused
<1>6. Whole(m)
  BY <1>1, <1>2 DEF Whole, Alone, Refused
<1> QED BY <1>4, <1>5, <1>6

LEMMA AskedSound ==
    ASSUME NEW n, NEW m, Sound(n), Due(n), Asked(n, m)
    PROVE  Sound(m)
<1> USE DEF Sound, Due
<1>1. /\ m.save = n.save /\ m.conns = n.conns /\ m.ns = n.ns /\ m.next = n.next
      /\ DOMAIN m = NetFields
  BY DEF Asked, NetBut, NetFields
<1>2. /\ DOMAIN m.job = JobFields /\ m.job.resolve = "asked"
      /\ m.job.id = n.job.id /\ m.job.kind = n.job.kind /\ m.job.orphans = n.job.orphans
      /\ m.job.pcb = n.job.pcb /\ m.job.pending = n.job.pending /\ m.job.active = n.job.active
      /\ m.job.done = n.job.done /\ m.job.success = n.job.success
      /\ m.job.header_done = n.job.header_done /\ m.job.body = n.job.body /\ m.job.sent = n.job.sent
  BY DEF Asked, JobBut, JobFields
<1>4. Shape(m)
  BY <1>1, <1>2 DEF Shape, Fields
<1>5. Numbered(m)
  BY <1>1, <1>2 DEF Numbered
<1>6. Whole(m)
  BY <1>1, <1>2 DEF Whole, Alone
<1> QED BY <1>4, <1>5, <1>6

LEMMA KickSound ==
    ASSUME NEW n, NEW m \in Kick(n), Sound(n)
    PROVE  Sound(m)
BY KickFields, StartedSound, RefusedSound, AskedSound DEF Sound

LEMMA KickKeeps ==
    ASSUME NEW n, NEW m \in Kick(n), Shape(n)
    PROVE  /\ m.next = n.next /\ m.save = n.save
           /\ m.job.id = n.job.id /\ m.job.save = n.job.save /\ m.job.body = n.job.body
           /\ m.job.kind = n.job.kind /\ m.job.owner = n.job.owner
           /\ n.job.done => m.job.done
<1>1. CASE Refused(n, m)
  BY <1>1 DEF Refused, NetBut, JobBut, NetFields, JobFields
<1>2. CASE Started(n, m)
  BY <1>2 DEF Started, NetBut, JobBut, NetFields, JobFields
<1>3. CASE Asked(n, m)
  BY <1>3 DEF Asked, NetBut, JobBut, NetFields, JobFields
<1> QED BY <1>1, <1>2, <1>3, KickFields

LEMMA KickGate ==
    ASSUME NEW n, NEW m \in Kick(n), Shape(n), Gate(n)
    PROVE  Gate(m)
<1>1. CASE m = n
  BY <1>1
<1>2. ASSUME Due(n) PROVE n.job.owner # Browser /\ (~n.ns.upset => ~n.ns.waiting)
  BY <1>2 DEF Due, Gate
<1>3. CASE Due(n) /\ Refused(n, m)
  <2>1. /\ m.job.owner = n.job.owner /\ m.job.kind = n.job.kind
        /\ ~m.job.pending /\ ~m.job.active
    BY <1>3 DEF Refused, JobBut, JobFields
  <2>2. /\ DOMAIN m.ns = NsFields /\ NsBut(n, m, {"upset"})
        /\ m.ns.upset <=> n.ns.upset
    BY <1>2, <1>3 DEF Refused, NsBut
  <2>3. Tidy(m.ns) /\ (~m.ns.upset => Calm(m.ns) /\ ~m.ns.waiting /\ (n.job.kind = "image" => Fresh(m.ns)))
    BY <1>2, <1>3, <2>2 DEF Gate, Tidy, Calm, Unused, Fresh, NsBut, NsFields
  <2> QED BY <2>1, <2>3 DEF Gate
<1>4. CASE Due(n) /\ Started(n, m)
  <2>1. m.job.owner = n.job.owner /\ m.job.kind = n.job.kind /\ ~m.job.pending
    BY <1>4 DEF Started, JobBut, JobFields
  <2>2. m.ns = n.ns
    BY <1>4 DEF Started, NetBut, NetFields
  <2> QED BY <1>2, <1>4, <2>1, <2>2 DEF Gate
<1>5. CASE Due(n) /\ Asked(n, m)
  <2>1. /\ m.job.owner = n.job.owner /\ m.job.active = n.job.active
        /\ m.job.pending = n.job.pending /\ m.job.kind = n.job.kind
    BY <1>5 DEF Asked, JobBut, JobFields
  <2>2. m.ns = n.ns
    BY <1>5 DEF Asked, NetBut, NetFields
  <2> QED BY <2>1, <2>2 DEF Gate
<1> QED BY <1>1, <1>3, <1>4, <1>5, KickFields

-----------------------------------------------------------------------------

(* wget_queue_request_ex before it kicks *)
Queued(n, host, kind, owner, saves) ==
    [n EXCEPT
        !.next = n.next + 1,
        !.save.clash = n.save.active,
        !.job = [EmptyJob EXCEPT !.id = n.next, !.pending = TRUE, !.kind = kind, !.owner = owner,
                                 !.save = saves,
                                 !.resolve = IF host = "ip" THEN "no" ELSE "wanted",
                                 !.addr = IF host = "ip" THEN n.next ELSE 0,
                                 !.stage = IF host = "ip" THEN "IDLE" ELSE "DNS",
                                 !.orphans = DOMAIN n.conns # {} \/ n.asked # {}]]

LEMMA QueuedFields ==
    ASSUME NEW n, Fields(n), NEW host, NEW kind, NEW owner, NEW saves
    PROVE  LET q == Queued(n, host, kind, owner, saves) IN
           /\ QueueRequest(n, host, kind, owner, saves) = Kick(q)
           /\ NetBut(n, q, {"next", "save", "job"})
           /\ q.next = n.next + 1
           /\ DOMAIN q.save = SaveFields
           /\ q.save.active = n.save.active /\ q.save.clash = n.save.active
           /\ DOMAIN q.job = JobFields
           /\ q.job.id = n.next /\ q.job.pending /\ ~q.job.active /\ ~q.job.done /\ ~q.job.success
           /\ q.job.kind = kind /\ q.job.owner = owner
           /\ q.job.resolve = IF host = "ip" THEN "no" ELSE "wanted"
           /\ ~q.job.header_done /\ q.job.body = <<>> /\ q.job.sent = 0
           /\ q.job.orphans <=> DOMAIN n.conns # {} \/ n.asked # {}
<1> DEFINE q == Queued(n, host, kind, owner, saves)
<1>1. QueueRequest(n, host, kind, owner, saves) = Kick(q)
  BY DEF QueueRequest, Queued
<1>2. NetBut(n, q, {"next", "save", "job"}) /\ q.next = n.next + 1
  BY DEF Queued, NetBut, Fields, NetFields
<1>3. /\ DOMAIN q.save = SaveFields
      /\ q.save.active = n.save.active /\ q.save.clash = n.save.active
  BY DEF Queued, Fields, NetFields, SaveFields
<1>4. /\ DOMAIN q.job = JobFields
      /\ q.job.id = n.next /\ q.job.pending /\ ~q.job.active /\ ~q.job.done /\ ~q.job.success
      /\ q.job.kind = kind /\ q.job.owner = owner
      /\ q.job.resolve = IF host = "ip" THEN "no" ELSE "wanted"
      /\ ~q.job.header_done /\ q.job.body = <<>> /\ q.job.sent = 0
      /\ q.job.orphans <=> DOMAIN n.conns # {} \/ n.asked # {}
  BY DEF Queued, Fields, NetFields, JobFields, EmptyJob
<1> HIDE DEF q
<1>5. QED BY <1>1, <1>2, <1>3, <1>4 DEF q

LEMMA QueuedSound ==
    ASSUME NEW n, Shape(n), Numbered(n), NEW host, NEW kind, NEW owner, NEW saves
    PROVE  Sound(Queued(n, host, kind, owner, saves))
<1> DEFINE q == Queued(n, host, kind, owner, saves)
<1> HIDE DEF q
<1>1. /\ NetBut(n, q, {"next", "save", "job"})
      /\ q.next = n.next + 1
      /\ DOMAIN q.save = SaveFields
      /\ DOMAIN q.job = JobFields
      /\ q.job.id = n.next /\ q.job.pending /\ ~q.job.active /\ ~q.job.done /\ ~q.job.success
      /\ q.job.resolve = IF host = "ip" THEN "no" ELSE "wanted"
      /\ ~q.job.header_done /\ q.job.body = <<>> /\ q.job.sent = 0
      /\ q.job.orphans <=> DOMAIN n.conns # {} \/ n.asked # {}
  BY QueuedFields DEF q, Shape
<1>2. DOMAIN q = NetFields /\ q.conns = n.conns /\ q.asked = n.asked /\ q.ns = n.ns
  BY <1>1 DEF NetBut, NetFields
<1>3. Shape(q)
  BY <1>1, <1>2 DEF Shape, Fields
<1>4. Numbered(q)
  BY <1>1, <1>2 DEF Numbered, Shape
<1>5. Whole(q)
  BY <1>1, <1>2 DEF Whole, Alone
<1> QED BY <1>3, <1>4, <1>5 DEF Sound, q

(* What a queued request comes to. *)
Taken(n, m, kind, owner) ==
    /\ m.job.kind = kind /\ m.job.owner = owner
    /\ NsBut(n, m, {"upset"})
    /\ (m.job.active /\ ~m.job.pending /\ (m.ns.upset <=> n.ns.upset))
       \/ (~m.job.active /\ ~m.job.pending /\ (m.ns.upset <=> n.ns.upset \/ owner = Browser))
       \/ (~m.job.active /\ m.job.pending /\ (m.ns.upset <=> n.ns.upset))

LEMMA QueueRequestTaken ==
    ASSUME NEW n, Shape(n), Numbered(n), NEW host, NEW kind, NEW owner, NEW saves,
           NEW m \in QueueRequest(n, host, kind, owner, saves)
    PROVE  /\ Sound(m) /\ Keeps(n, m) /\ m.job.id = n.next /\ m.next = n.next + 1
           /\ Taken(n, m, kind, owner)
           /\ host = "ip" => ~m.job.pending
<1> DEFINE q == Queued(n, host, kind, owner, saves)
<1> HIDE DEF q
<1>1. /\ m \in Kick(q)
      /\ NetBut(n, q, {"next", "save", "job"})
      /\ q.next = n.next + 1
      /\ q.save.active = n.save.active /\ q.save.clash = n.save.active
      /\ q.job.id = n.next /\ q.job.pending /\ ~q.job.active
      /\ q.job.kind = kind /\ q.job.owner = owner
      /\ q.job.resolve = IF host = "ip" THEN "no" ELSE "wanted"
  BY QueuedFields DEF q, Shape
<1>2. Sound(q) /\ Shape(q)
  BY QueuedSound DEF q, Sound
<1>3. Sound(m)
  BY <1>1, <1>2, KickSound
<1>4. /\ m.next = q.next /\ m.save = q.save
      /\ m.job.id = q.job.id /\ m.job.kind = q.job.kind /\ m.job.owner = q.job.owner
  BY <1>1, <1>2, KickKeeps
<1>5. Keeps(n, m)
  BY <1>1, <1>4 DEF Keeps, Shape
<1>6. q.ns = n.ns /\ DOMAIN n.ns = NsFields
  BY <1>1 DEF NetBut, NetFields, Shape, Fields
<1>7. /\ Taken(n, m, kind, owner)
      /\ host = "ip" => ~m.job.pending
  <2>1. CASE m = q /\ q.job.resolve # "no"
    BY <2>1, <1>1, <1>6 DEF Taken, NsBut
  <2>2. CASE Refused(q, m)
    <3>1. ~m.job.active /\ ~m.job.pending
      BY <2>2 DEF Refused
    <3>2. NsBut(n, m, {"upset"}) /\ (m.ns.upset <=> n.ns.upset \/ owner = Browser)
      BY <2>2, <1>1, <1>6 DEF Refused, NsBut
    <3> QED BY <3>1, <3>2, <1>1, <1>4 DEF Taken
  <2>3. CASE Started(q, m)
    <3>1. m.ns = n.ns
      BY <2>3, <1>6 DEF Started, NetBut, NetFields
    <3>2. m.job.active /\ ~m.job.pending
      BY <2>3 DEF Started
    <3> QED BY <3>1, <3>2, <1>1, <1>4, <1>6 DEF Taken, NsBut
  <2>4. CASE Asked(q, m) /\ q.job.resolve # "no"
    <3>1. m.ns = n.ns
      BY <2>4, <1>6 DEF Asked, NetBut, NetFields
    <3>2. m.job.active = q.job.active /\ m.job.pending = q.job.pending
      BY <2>4 DEF Asked, JobBut, JobFields
    <3> QED BY <2>4, <3>1, <3>2, <1>1, <1>4, <1>6 DEF Taken, NsBut
  <2>5. Due(q)
    BY <1>1 DEF Due
  <2> QED BY <1>1, <1>2, <2>1, <2>2, <2>3, <2>4, <2>5, KickFields
<1> QED BY <1>1, <1>3, <1>4, <1>5, <1>7

-----------------------------------------------------------------------------

(* The browser, with or without a mishap to remember. *)
LEMMA NoNewNumbers ==
    ASSUME NEW n, Shape(n), NEW m, NsBut(n, m, {"upset"})
    PROVE  /\ Numbers(m.ns) = Numbers(n.ns) /\ Busy(m.ns) = Busy(n.ns)
           /\ Tidy(n.ns) => Tidy(m.ns)
           /\ Calm(n.ns) => Calm(m.ns)
           /\ Fresh(n.ns) <=> Fresh(m.ns)
<1>1. /\ m.ns.waiting = n.ns.waiting /\ m.ns.q = n.ns.q /\ m.ns.loading = n.ns.loading
      /\ m.ns.ready = n.ns.ready /\ m.ns.has = n.ns.has /\ m.ns.img = n.ns.img
      /\ m.ns.map = n.ns.map /\ m.ns.url = n.ns.url /\ m.ns.reset = n.ns.reset
      /\ m.ns.used = n.ns.used /\ m.ns.hasty = n.ns.hasty
  BY DEF NsBut, NsFields
<1> QED BY <1>1 DEF Numbers, Targets, Busy, Tidy, Calm, Unused, Fresh

(* A request of the browser keeps NetInv when the gate is shut behind it. *)
LEMMA BrowserRequest ==
    ASSUME NEW n, Shape(n), Numbered(n), Tidy(n.ns), NEW kind, NEW saves,
           ~n.ns.upset => /\ Calm(n.ns) /\ Busy(n.ns)
                          /\ n.ns.waiting => kind = "page"
                          /\ kind = "image" => Fresh(n.ns),
           NEW m \in QueueRequest(n, "ip", kind, Browser, saves)
    PROVE  NetInv(m) /\ Keeps(n, m) /\ NsBut(n, m, {"upset"})
<1>1. Sound(m) /\ Keeps(n, m) /\ Taken(n, m, kind, Browser) /\ ~m.job.pending
  BY QueueRequestTaken
<1>2. NsBut(n, m, {"upset"}) /\ m.ns.waiting = n.ns.waiting
  BY <1>1 DEF Taken, NsBut, NsFields
<1>3. Gate(m)
  <2>1. /\ Tidy(m.ns) /\ (Calm(n.ns) => Calm(m.ns)) /\ (Busy(n.ns) => Busy(m.ns))
        /\ Fresh(n.ns) => Fresh(m.ns)
    BY <1>2, NoNewNumbers
  <2>2. m.job.kind = kind /\ m.job.owner = Browser /\ (~m.ns.upset => ~n.ns.upset /\ m.job.active)
    BY <1>1 DEF Taken
  <2> QED BY <1>1, <1>2, <2>1, <2>2 DEF Gate
<1> QED BY <1>1, <1>2, <1>3 DEF NetInv, Sound

LEMMA KeepsTrans ==
    ASSUME NEW n, NEW m, NEW k, Shape(n), Shape(m), Shape(k), Keeps(n, m), Keeps(m, k)
    PROVE  Keeps(n, k)
<1>1. /\ n.next \in Nat /\ m.next \in Nat /\ k.next \in Nat
      /\ n.job.id \in Nat /\ m.job.id \in Nat /\ k.job.id \in Nat
  BY DEF Shape
<1> QED BY <1>1 DEF Keeps

(* The map an action goes to is one the browser knows, and a new one. *)
LEMMA ActionMapKnown ==
    ASSUME NEW n, Shape(n), ~Gated(n.ns)
    PROVE  /\ ActionMap(n.ns) \in Targets(n.ns)
           /\ Calm(n.ns) /\ ActionMap(n.ns) # 0 => ActionMap(n.ns) \notin n.ns.used
<1>1. n.ns.q \in Seq(Nat) /\ n.ns.q # <<>> /\ ~n.ns.waiting /\ ~n.ns.loading
  BY DEF Shape, Gated
<1>2. Head(n.ns.q) = n.ns.q[1] /\ 1 \in 1 .. Len(n.ns.q)
  BY <1>1
<1>3. CASE n.ns.map # 0
  BY <1>1, <1>3 DEF ActionMap, Targets, Calm, Unused
<1>4. CASE n.ns.map = 0 /\ Head(n.ns.q) # 0
  <2>1. ActionMap(n.ns) = n.ns.q[1]
    BY <1>2, <1>4 DEF ActionMap
  <2> QED BY <1>1, <1>2, <1>4, <2>1 DEF Targets, Calm, Fresh
<1>5. CASE n.ns.map = 0 /\ Head(n.ns.q) = 0
  <2>1. ActionMap(n.ns) = IF n.ns.url # 0 THEN n.ns.url ELSE n.ns.img
    BY <1>5 DEF ActionMap
  <2> QED BY <1>1, <1>5, <2>1 DEF Targets, Calm, Unused
<1> QED BY <1>3, <1>4, <1>5

(* ns_process_queued_actions *)
LEMMA ProcessQueuedInv ==
    ASSUME NEW n, NetInv(n), NEW m \in ProcessQueued(n)
    PROVE  NetInv(m) /\ Keeps(n, m)
<1> DEFINE b == n.ns
           id == ActionMap(b)
           a == [n EXCEPT !.ns.waiting = TRUE, !.ns.q = Tail(@)]
           s == [a EXCEPT !.ns.url = id, !.ns.loading = TRUE, !.ns.reset = TRUE,
                          !.ns.map = 0, !.ns.used = @ \cup {id},
                          !.ns.hasty = \/ @ \/ id \in a.ns.used
                                       \/ a.job.owner = Browser /\ (a.job.active \/ a.job.pending)]
<1>0. Shape(n) /\ Numbered(n) /\ Gate(n) /\ Fields(n)
  BY DEF NetInv, Shape
<1>1. CASE Gated(b) \/ id = 0
  <2>1. m = n
    BY <1>1 DEF ProcessQueued
  <2> QED BY <2>1, <1>0 DEF Keeps, Shape
<1>2. CASE ~(Gated(b) \/ id = 0)
  <2>1. m \in QueueRequest(s, "ip", "page", Browser, FALSE)
    BY <1>2 DEF ProcessQueued, StartMap
  <2>2. /\ NetBut(n, a, {"ns"}) /\ NsBut(n, a, {"waiting", "q"})
        /\ a.ns.waiting /\ a.ns.q = Tail(n.ns.q)
    BY <1>0 DEF Fields, NetBut, NsBut, NetFields, NsFields
  <2> HIDE DEF a
  <2>3. NetBut(a, s, {"ns"}) /\ NsBut(a, s, {"url", "loading", "reset", "map", "used", "hasty"})
    BY <2>2 DEF Fields, NetBut, NsBut, NetFields, NsFields
  <2>4. /\ s.ns.url = id /\ s.ns.loading /\ s.ns.reset /\ s.ns.map = 0
        /\ s.ns.used = a.ns.used \cup {id}
        /\ s.ns.hasty => \/ a.ns.hasty \/ id \in a.ns.used
                         \/ a.job.owner = Browser /\ (a.job.active \/ a.job.pending)
    BY <2>2 DEF NetBut, NsBut, NetFields, NsFields
  <2> HIDE DEF s
  <2>5. /\ DOMAIN s = NetFields /\ s.job = n.job /\ s.save = n.save /\ s.conns = n.conns
        /\ s.next = n.next /\ a.job = n.job
    BY <2>2, <2>3 DEF NetBut, NetFields
  <2>6. /\ DOMAIN s.ns = NsFields /\ s.ns.waiting /\ s.ns.q = Tail(b.q) /\ s.ns.ready = b.ready
        /\ s.ns.has = b.has /\ s.ns.img = b.img /\ s.ns.upset = b.upset
        /\ a.ns.used = b.used /\ a.ns.hasty = b.hasty
    BY <2>2, <2>3 DEF NsBut, NsFields
  <2>7. b.q \in Seq(Nat) /\ b.q # <<>> /\ ~b.waiting /\ ~b.loading
    BY <1>0, <1>2 DEF Shape, Gated
  <2>8. s.ns.q \in Seq(Nat) /\ \A i \in 1 .. Len(s.ns.q) : i + 1 \in 1 .. Len(b.q) /\ s.ns.q[i] = b.q[i + 1]
    BY <2>6, <2>7
  <2>9. Shape(s)
    BY <1>0, <2>5, <2>6, <2>8 DEF Shape, Fields
  <2>10. id \in Targets(b) /\ (Calm(b) => id \notin b.used)
    BY <1>0, <1>2, ActionMapKnown
  <2>11. Numbers(s.ns) \subseteq Numbers(b) \cup {0}
    BY <2>4, <2>6, <2>8, <2>10 DEF Numbers, Targets
  <2>12. Numbered(s)
    BY <1>0, <2>5, <2>11 DEF Numbered, Shape
  <2>13. Tidy(s.ns)
    BY <1>0, <2>4, <2>6, <2>7 DEF Gate, Tidy
  <2>14. ~s.ns.upset => Calm(s.ns) /\ Busy(s.ns)
    <3>1. ASSUME ~s.ns.upset PROVE ~s.ns.hasty
      <4>1. Calm(b) /\ ~Busy(b) /\ ~(n.job.owner = Browser /\ (n.job.active \/ n.job.pending))
        BY <3>1, <1>0, <2>6, <2>7 DEF Gate, Busy, Tidy
      <4> QED BY <4>1, <2>4, <2>5, <2>6, <2>10 DEF Calm
    <3> QED BY <3>1, <2>4, <2>6 DEF Calm, Unused, Fresh, Busy
  <2>15. NetInv(m) /\ Keeps(s, m)
    BY <2>1, <2>9, <2>12, <2>13, <2>14, BrowserRequest
  <2> QED BY <2>5, <2>15 DEF Keeps
<1> QED BY <1>1, <1>2

(* ns_start_document_navigation *)
LEMMA DocumentNavigationInv ==
    ASSUME NEW n, NetInv(n), ~n.ns.upset => ~n.job.active /\ ~n.job.pending,
           NEW k \in DocumentNavigation(n)
    PROVE  NetInv(k) /\ Keeps(n, k)
<1>1. PICK m \in QueueRequest(n, "ip", "page", Browser, FALSE) :
         k = [m EXCEPT !.ns = BeginNavigation(ClearQueued(@))]
  BY DEF DocumentNavigation
<1>2. Shape(n) /\ Numbered(n) /\ Gate(n)
  BY DEF NetInv
<1>3. Sound(m) /\ Keeps(n, m) /\ Taken(n, m, "page", Browser) /\ ~m.job.pending
  BY <1>1, <1>2, QueueRequestTaken
<1>4. Fields(m) /\ Shape(m)
  BY <1>3 DEF Sound, Shape
<1>5. /\ NetBut(m, k, {"ns"})
      /\ NsBut(m, k, {"q", "waiting", "has", "loading", "map", "ready", "img", "url"})
      /\ k.ns.q = <<>> /\ ~k.ns.waiting /\ ~k.ns.has /\ k.ns.map = 0 /\ k.ns.url = 0
      /\ (k.ns.ready <=> m.ns.ready) /\ (k.ns.loading <=> m.ns.ready)
      /\ k.ns.img \in {m.ns.img, 0}
  BY <1>1, <1>4 DEF BeginNavigation, ResetDoc, ClearQueued, Fields, NetBut, NsBut, NetFields, NsFields
<1>6. /\ DOMAIN k = NetFields /\ k.job = m.job /\ k.save = m.save /\ k.conns = m.conns
      /\ k.next = m.next
  BY <1>5 DEF NetBut, NetFields
<1>7. /\ DOMAIN k.ns = NsFields /\ k.ns.reset = m.ns.reset /\ k.ns.used = m.ns.used
      /\ k.ns.hasty = m.ns.hasty /\ k.ns.upset = m.ns.upset
  BY <1>5 DEF NsBut, NsFields
<1>8. Shape(k)
  BY <1>4, <1>5, <1>6, <1>7 DEF Shape, Fields
<1>9. Numbered(k)
  <2>1. Numbers(k.ns) \subseteq Numbers(m.ns) \cup {0}
    BY <1>5, <1>7 DEF Numbers, Targets
  <2> QED BY <2>1, <1>3, <1>6, <1>4 DEF Numbered, Shape, Sound
<1>10. Whole(k)
  BY <1>3, <1>6 DEF Sound, Whole, Alone
<1>11. Gate(k)
  <2>1. m.job.owner = Browser /\ (~m.ns.upset => ~n.ns.upset)
    BY <1>3 DEF Taken
  <2>2. ~n.ns.upset => Calm(m.ns) /\ ~m.ns.waiting
    <3>1. ~n.ns.upset => Calm(n.ns) /\ ~n.ns.waiting
      BY <1>2 DEF Gate
    <3>2. NsBut(n, m, {"upset"}) /\ m.ns.waiting = n.ns.waiting
      BY <1>3 DEF Taken, NsBut, NsFields
    <3> QED BY <1>2, <3>1, <3>2, NoNewNumbers
  <2>3. Tidy(k.ns)
    BY <1>5 DEF Tidy
  <2>4. ~k.ns.upset => Calm(k.ns)
    BY <2>1, <2>2, <1>5, <1>7 DEF Calm, Unused, Fresh
  <2>5. Busy(k.ns) /\ m.job.kind = "page"
    BY <1>3, <1>5 DEF Busy, Taken
  <2> QED BY <1>3, <1>5, <1>6, <2>1, <2>3, <2>4, <2>5 DEF Gate
<1>12. Keeps(n, k)
  BY <1>3, <1>6 DEF Keeps
<1> QED BY <1>8, <1>9, <1>10, <1>11, <1>12 DEF NetInv

(* ns_follow_submit, netsurf_refresh_current_view *)
LEMMA ReloadInv ==
    ASSUME NEW n, NetInv(n), ~n.ns.upset => ~n.job.active /\ ~n.job.pending,
           NEW k \in Reload(n)
    PROVE  NetInv(k) /\ Keeps(n, k)
<1> DEFINE r == [n EXCEPT !.ns = BeginNavigation(@)]
           u == [r EXCEPT !.ns.upset = TRUE]
<1>0. Shape(n) /\ Numbered(n) /\ Gate(n) /\ Whole(n) /\ Fields(n)
  BY DEF NetInv, Shape
<1>1. k = u \/ k \in QueueRequest(r, "ip", "page", Browser, FALSE)
  BY DEF Reload
<1>2. /\ NetBut(n, r, {"ns"})
      /\ NsBut(n, r, {"has", "loading", "map", "ready", "img", "url"})
      /\ ~r.ns.has /\ r.ns.map = 0 /\ r.ns.url = 0 /\ r.ns.img \in {n.ns.img, 0}
      /\ (r.ns.ready <=> n.ns.ready) /\ (r.ns.loading <=> n.ns.ready)
  BY <1>0 DEF BeginNavigation, ResetDoc, Fields, NetBut, NsBut, NetFields, NsFields
<1>3. NetBut(r, u, {"ns"}) /\ NsBut(r, u, {"upset"}) /\ u.ns.upset
  BY <1>2 DEF NetBut, NsBut, NetFields, NsFields
<1> HIDE DEF r, u
<1>4. /\ DOMAIN r = NetFields /\ r.job = n.job /\ r.save = n.save /\ r.conns = n.conns
      /\ r.next = n.next
  BY <1>2 DEF NetBut, NetFields
<1>5. /\ DOMAIN r.ns = NsFields /\ r.ns.q = n.ns.q /\ r.ns.waiting = n.ns.waiting
      /\ r.ns.reset = n.ns.reset /\ r.ns.used = n.ns.used /\ r.ns.hasty = n.ns.hasty
      /\ r.ns.upset = n.ns.upset
  BY <1>2 DEF NsBut, NsFields
<1>6. Shape(r)
  BY <1>0, <1>4, <1>5 DEF Shape, Fields
<1>7. Numbered(r) /\ Whole(r)
  <2>1. Numbers(r.ns) \subseteq Numbers(n.ns) \cup {0}
    BY <1>2, <1>5 DEF Numbers, Targets
  <2> QED BY <2>1, <1>0, <1>4 DEF Numbered, Whole, Alone, Shape
<1>8. Tidy(r.ns) /\ Busy(r.ns)
  BY <1>0, <1>2, <1>5 DEF Gate, Tidy, Busy
<1>9. ~r.ns.upset => Calm(r.ns)
  <2>1. ~r.ns.upset => Calm(n.ns) /\ ~n.ns.waiting
    BY <1>0, <1>5 DEF Gate
  <2>2. ~r.ns.loading => r.ns.q = <<>>
    BY <1>0, <1>2, <1>5 DEF Gate, Tidy
  <2> QED BY <2>1, <2>2, <1>2, <1>5 DEF Calm, Unused, Fresh
<1>10. CASE k = u
  <2>1. /\ DOMAIN u = NetFields /\ u.job = n.job /\ u.save = n.save /\ u.conns = n.conns
        /\ u.next = n.next
    BY <1>3, <1>4 DEF NetBut, NetFields
  <2>2. DOMAIN u.ns = NsFields /\ u.ns.q = n.ns.q /\ Numbers(u.ns) = Numbers(r.ns) /\ Tidy(u.ns)
    BY <1>3, <1>5, <1>6, <1>8, NoNewNumbers DEF NsBut, NsFields
  <2>3. Shape(u)
    BY <1>0, <2>1, <2>2 DEF Shape, Fields
  <2>4. Numbered(u) /\ Whole(u)
    BY <1>0, <1>4, <1>7, <2>1, <2>2 DEF Numbered, Whole, Alone
  <2>5. Gate(u)
    BY <1>0, <1>3, <2>1, <2>2 DEF Gate
  <2>6. Keeps(n, u)
    BY <1>0, <2>1 DEF Keeps, Shape
  <2> QED BY <1>10, <2>3, <2>4, <2>5, <2>6 DEF NetInv
<1>11. CASE k \in QueueRequest(r, "ip", "page", Browser, FALSE)
  <2>1. NetInv(k) /\ Keeps(r, k)
    BY <1>6, <1>7, <1>8, <1>9, <1>11, BrowserRequest
  <2> QED BY <2>1, <1>4 DEF Keeps
<1> QED BY <1>1, <1>10, <1>11

(* netsurf_complete_data, once the page has been marked finished. *)
LEMMA CompleteDataInv ==
    ASSUME NEW n, Shape(n), Numbered(n), Whole(n), Tidy(n.ns), ~n.ns.upset => Calm(n.ns),
           ~n.job.active, n.job.owner = Browser => ~n.job.pending,
           NEW m \in CompleteData(n)
    PROVE  NetInv(m) /\ Keeps(n, m)
<1> DEFINE Noted(x) == [x EXCEPT !.ns.upset = @ \/ (x.ns.map = 0 /\ (x.ns.waiting \/ x.ns.q # <<>>))]
           Cleared(x) == IF x.ns.waiting /\ x.ns.map = 0
                         THEN [Noted(x) EXCEPT !.ns = ClearQueued(@)] ELSE Noted(x)
           ld == [n EXCEPT !.ns.loading = TRUE]
<1>1. PICK x \in IF n.ns.has THEN QueueRequest(ld, "ip", "image", Browser, FALSE) ELSE {n} :
         m \in IF x.ns.has THEN {Cleared(x)} ELSE ProcessQueued(Cleared(x))
  BY DEF CompleteData
<1>2. ASSUME NEW x1, Sound(x1), Tidy(x1.ns), x1.job.owner = Browser => ~x1.job.pending,
             x1.ns.waiting \/ (Fresh(x1.ns) => Gate(x1))
      PROVE  NetInv(Cleared(x1)) /\ Keeps(x1, Cleared(x1))
  <2> DEFINE y == Cleared(x1)
             z == Noted(x1)
  <2>0. Fields(x1) /\ Shape(x1)
    BY <1>2 DEF Sound, Shape
  <2>1. /\ NetBut(x1, z, {"ns"}) /\ NsBut(x1, z, {"upset"})
        /\ z.ns.upset <=> x1.ns.upset \/ (x1.ns.map = 0 /\ (x1.ns.waiting \/ x1.ns.q # <<>>))
    BY <2>0 DEF Fields, NetBut, NsBut, NetFields, NsFields
  <2>2. y = IF x1.ns.waiting /\ x1.ns.map = 0 THEN [z EXCEPT !.ns = ClearQueued(@)] ELSE z
    OBVIOUS
  <2> HIDE DEF z, y
  <2>3. /\ NetBut(x1, y, {"ns"}) /\ NsBut(x1, y, {"q", "waiting", "upset"})
        /\ y.ns.upset <=> z.ns.upset
        /\ x1.ns.waiting => y.ns.q = <<>> /\ ~y.ns.waiting /\ y.ns.upset
        /\ ~x1.ns.waiting => y = z
    <3>1. CASE x1.ns.waiting
      <4>1. x1.ns.map = 0
        BY <3>1, <1>2 DEF Tidy
      <4>2. y = [z EXCEPT !.ns = ClearQueued(@)]
        BY <2>2, <3>1, <4>1
      <4> QED BY <2>1, <3>1, <4>1, <4>2 DEF ClearQueued, NetBut, NsBut, NetFields, NsFields
    <3>2. CASE ~x1.ns.waiting
      BY <2>1, <2>2, <3>2 DEF NetBut, NsBut
    <3> QED BY <3>1, <3>2
  <2>4. /\ DOMAIN y = NetFields /\ y.job = x1.job /\ y.save = x1.save /\ y.conns = x1.conns
        /\ y.next = x1.next
    BY <2>3 DEF NetBut, NetFields
  <2>5. /\ DOMAIN y.ns = NsFields /\ y.ns.used = x1.ns.used /\ y.ns.map = x1.ns.map
        /\ y.ns.img = x1.ns.img /\ y.ns.url = x1.ns.url /\ y.ns.has = x1.ns.has
        /\ y.ns.ready = x1.ns.ready
        /\ y.ns.q = x1.ns.q \/ y.ns.q = <<>>
    BY <2>1, <2>3 DEF NsBut, NsFields
  <2>6. Shape(y)
    <3>1. /\ DOMAIN x1.job = JobFields /\ DOMAIN x1.save = SaveFields
          /\ x1.ns.q \in Seq(Nat)
      BY <2>0 DEF Shape, Fields
    <3>2. Fields(y)
      BY <2>4, <2>5, <3>1 DEF Fields
    <3>3. y.ns.q \in Seq(Nat)
      <4>1. <<>> \in Seq(Nat)
        OBVIOUS
      <4> QED BY <2>5, <3>1, <4>1
    <3>4. /\ y.next \in Nat \ {0} /\ y.job.id \in Nat /\ y.job.id < y.next
          /\ y.job.body \in Seq(Nat) /\ y.job.sent \in Nat
          /\ y.job.resolve \in {"no", "wanted", "asked"}
      BY <2>0, <2>4 DEF Shape
    <3>5. /\ \A c \in DOMAIN y.conns : c \in Nat \ {0} /\ c < y.next
          /\ \A c \in DOMAIN y.conns : DOMAIN y.conns[c] = ConnFields /\ y.conns[c].sent \in Nat
      BY <2>0, <2>4 DEF Shape
    <3> QED BY <3>2, <3>3, <3>4, <3>5 DEF Shape
  <2>7. Numbers(y.ns) \subseteq Numbers(x1.ns)
    BY <2>5 DEF Numbers, Targets
  <2>8. Numbered(y) /\ Whole(y)
    BY <1>2, <2>4, <2>7 DEF Numbered, Whole, Alone, Sound
  <2>9. Gate(y)
    <3>1. CASE y.ns.upset
      <4>1. Tidy(y.ns)
        <5>1. CASE x1.ns.waiting
          BY <5>1, <1>2, <2>3, <2>5 DEF Tidy
        <5>2. CASE ~x1.ns.waiting
          BY <5>2, <1>2, <2>0, <2>1, <2>3, NoNewNumbers
        <5> QED BY <5>1, <5>2
      <4> QED BY <1>2, <2>4, <3>1, <4>1 DEF Gate
    <3>2. CASE ~y.ns.upset
      <4>1. ~x1.ns.waiting /\ y = z /\ Fresh(x1.ns) /\ ~x1.ns.upset
        BY <3>2, <2>1, <2>3 DEF Fresh
      <4>2. /\ Busy(y.ns) = Busy(x1.ns) /\ (Tidy(x1.ns) => Tidy(y.ns)) /\ (Calm(x1.ns) => Calm(y.ns))
            /\ Fresh(y.ns) /\ y.ns.waiting = x1.ns.waiting
        BY <4>1, <2>0, <2>1, NoNewNumbers DEF NsBut, NsFields
      <4> QED BY <4>1, <4>2, <1>2, <2>4 DEF Gate
    <3> QED BY <3>1, <3>2
  <2>10. Keeps(x1, y)
    BY <2>0, <2>4 DEF Keeps, Shape
  <2> QED BY <2>6, <2>8, <2>9, <2>10 DEF NetInv, y
<1>3. Sound(x) /\ Tidy(x.ns) /\ (x.job.owner = Browser => ~x.job.pending)
      /\ (x.ns.waiting \/ (Fresh(x.ns) => Gate(x))) /\ Keeps(n, x)
  <2>1. CASE ~n.ns.has
    <3>1. x = n
      BY <1>1, <2>1
    <3> QED BY <3>1 DEF Sound, Gate, Keeps, Shape
  <2>2. CASE n.ns.has
    <3>0. Fields(n)
      BY DEF Shape
    <3>1. NetBut(n, ld, {"ns"}) /\ NsBut(n, ld, {"loading"}) /\ ld.ns.loading
      BY <3>0 DEF Fields, NetBut, NsBut, NetFields, NsFields
    <3>2. x \in QueueRequest(ld, "ip", "image", Browser, FALSE)
      BY <1>1, <2>2
    <3> HIDE DEF ld
    <3>3. /\ DOMAIN ld = NetFields /\ ld.job = n.job /\ ld.save = n.save /\ ld.conns = n.conns
          /\ ld.next = n.next
      BY <3>1 DEF NetBut, NetFields
    <3>4. /\ DOMAIN ld.ns = NsFields /\ ld.ns.waiting = n.ns.waiting /\ ld.ns.q = n.ns.q
          /\ ld.ns.ready = n.ns.ready /\ ld.ns.has = n.ns.has /\ ld.ns.img = n.ns.img
          /\ ld.ns.map = n.ns.map /\ ld.ns.url = n.ns.url /\ ld.ns.reset = n.ns.reset
          /\ ld.ns.used = n.ns.used /\ ld.ns.hasty = n.ns.hasty /\ ld.ns.upset = n.ns.upset
      BY <3>1 DEF NsBut, NsFields
    <3>5. Shape(ld)
      BY <3>3, <3>4 DEF Shape, Fields
    <3>6. Numbers(ld.ns) = Numbers(n.ns) /\ Tidy(ld.ns) /\ (Calm(n.ns) => Calm(ld.ns))
      BY <3>1, <3>4 DEF Numbers, Targets, Tidy, Calm, Unused
    <3>7. Numbered(ld)
      BY <3>3, <3>6 DEF Numbered
    <3>8. /\ Sound(x) /\ Keeps(ld, x) /\ Taken(ld, x, "image", Browser) /\ ~x.job.pending
      BY <3>2, <3>5, <3>7, QueueRequestTaken
    <3>9. NsBut(ld, x, {"upset"}) /\ x.ns.waiting = ld.ns.waiting
      BY <3>8 DEF Taken, NsBut, NsFields
    <3>10. Tidy(x.ns)
      BY <3>5, <3>6, <3>9, NoNewNumbers
    <3>11. CASE x.ns.waiting
      BY <3>3, <3>8, <3>10, <3>11 DEF Keeps
    <3>12. CASE ~x.ns.waiting
      <4>1. Fresh(x.ns) => Fresh(ld.ns)
        BY <3>5, <3>9, NoNewNumbers
      <4>2. Fresh(x.ns) => NetInv(x)
        BY <4>1, <3>1, <3>2, <3>4, <3>5, <3>6, <3>7, <3>9, <3>12, BrowserRequest DEF Busy
      <4> QED BY <4>2, <3>3, <3>8, <3>10 DEF NetInv, Keeps
    <3> QED BY <3>11, <3>12
  <2> QED BY <2>1, <2>2
<1>4. NetInv(Cleared(x)) /\ Keeps(x, Cleared(x))
  BY <1>2, <1>3
<1> HIDE DEF Cleared
<1>5. Keeps(n, Cleared(x))
  BY <1>3, <1>4, KeepsTrans DEF NetInv, Sound
<1>6. m = Cleared(x) \/ m \in ProcessQueued(Cleared(x))
  BY <1>1
<1>7. CASE m \in ProcessQueued(Cleared(x))
  <2>1. NetInv(m) /\ Keeps(Cleared(x), m)
    BY <1>4, <1>7, ProcessQueuedInv
  <2> QED BY <2>1, <1>4, <1>5, KeepsTrans DEF NetInv
<1> QED BY <1>4, <1>5, <1>6, <1>7

-----------------------------------------------------------------------------
(* The end of a request.                                                    *)

(* The browser, the owner and the kind stay; connections may go. *)
Tweaked(n, m) ==
    /\ NetBut(n, m, {"job", "save", "conns", "asked"})
    /\ DOMAIN m.save = SaveFields
    /\ JobBut(n, m, {"pending", "resolve", "addr", "late", "stage", "pcb", "header_done", "status",
                     "clen", "body", "save", "sent"})
    /\ m.job.pending => n.job.pending
    /\ m.job.resolve \in {"no", "wanted", "asked"}
    /\ m.job.body \in Seq(Nat) /\ m.job.sent \in Nat
    /\ \A c \in DOMAIN m.conns : c \in DOMAIN n.conns /\ m.conns[c] = n.conns[c]

LEMMA TweakedKept ==
    ASSUME NEW n, NEW m, Shape(n), Numbered(n), Gate(n), Tweaked(n, m)
    PROVE  Shape(m) /\ Numbered(m) /\ Gate(m)
<1>1. DOMAIN m = NetFields /\ m.ns = n.ns /\ m.next = n.next
  BY DEF Tweaked, NetBut, NetFields
<1>2. /\ DOMAIN m.job = JobFields /\ m.job.id = n.job.id /\ m.job.active = n.job.active
      /\ m.job.kind = n.job.kind /\ m.job.owner = n.job.owner
  BY DEF Tweaked, JobBut, JobFields
<1>3. Shape(m)
  BY <1>1, <1>2 DEF Tweaked, Shape, Fields
<1>4. Numbered(m)
  BY <1>1, <1>2 DEF Tweaked, Numbered
<1>5. Gate(m)
  BY <1>1, <1>2 DEF Tweaked, Gate
<1> QED BY <1>3, <1>4, <1>5

LEMMA FailedInv ==
    ASSUME NEW n, NEW m, NetInv(n), Failed(n, m), Alone(n) => DOMAIN n.conns = {}
    PROVE  NetInv(m) /\ Keeps(n, m)
<1>0. Shape(n) /\ Numbered(n) /\ Gate(n) /\ Whole(n)
  BY DEF NetInv
<1>1. m.save = n.save /\ m.conns = n.conns /\ m.next = n.next /\ DOMAIN m = NetFields
  BY DEF Failed, NetBut, NetFields
<1>2. /\ DOMAIN m.job = JobFields
      /\ m.job.id = n.job.id /\ m.job.kind = n.job.kind /\ m.job.orphans = n.job.orphans
      /\ m.job.pcb = n.job.pcb /\ m.job.pending = n.job.pending /\ m.job.resolve = n.job.resolve
      /\ m.job.owner = n.job.owner /\ m.job.save = n.job.save
      /\ m.job.header_done = n.job.header_done /\ m.job.body = n.job.body /\ m.job.sent = n.job.sent
  BY DEF Failed, JobBut, JobFields
<1>3. /\ DOMAIN m.ns = NsFields /\ m.ns.q = n.ns.q /\ m.ns.waiting = n.ns.waiting
      /\ Numbers(m.ns) = Numbers(n.ns)
      /\ Tidy(m.ns) /\ (Calm(n.ns) => Calm(m.ns)) /\ (Fresh(n.ns) <=> Fresh(m.ns))
      /\ m.ns.upset <=> n.ns.upset \/ n.job.owner = Browser
  <2>1. DOMAIN m.ns = NsFields /\ m.ns.q = n.ns.q /\ m.ns.waiting = n.ns.waiting
    BY DEF Failed, NsBut, NsFields
  <2> QED BY <2>1, <1>0, NoNewNumbers DEF Failed, Gate
<1>4. Shape(m)
  BY <1>0, <1>1, <1>2, <1>3 DEF Shape, Fields
<1>5. Numbered(m)
  BY <1>0, <1>1, <1>2, <1>3 DEF Numbered, Failed
<1>6. Whole(m)
  BY <1>0, <1>1, <1>2 DEF Whole, Alone, Failed
<1>7. Gate(m)
  BY <1>0, <1>2, <1>3 DEF Gate, Failed
<1>8. Keeps(n, m)
  BY <1>0, <1>1, <1>2 DEF Keeps, Failed, Shape
<1> QED BY <1>4, <1>5, <1>6, <1>7, <1>8 DEF NetInv

(* Closing the connection of a request alone leaves none. *)
LEMMA ClosePcbInv ==
    ASSUME NEW n, NetInv(n)
    PROVE  LET m == ClosePcb(n) IN
           /\ NetInv(m) /\ Keeps(n, m) /\ Closing(n, m)
           /\ Alone(m) <=> Alone(n)
           /\ Alone(n) => DOMAIN m.conns = {}
<1> DEFINE m == ClosePcb(n)
<1> HIDE DEF m
<1>0. Shape(n) /\ Numbered(n) /\ Gate(n) /\ Whole(n) /\ Fields(n)
  BY DEF NetInv, Shape
<1>1. Closing(n, m)
  BY <1>0, ClosePcbFields DEF m
<1>2. /\ m.save = n.save /\ m.next = n.next
      /\ NetBut(n, m, {"job", "save", "conns", "asked"})
  BY <1>1 DEF Closing, NetBut, NetFields
<1>3. /\ m.job.id = n.job.id /\ m.job.kind = n.job.kind /\ m.job.orphans = n.job.orphans
      /\ m.job.pending = n.job.pending /\ m.job.resolve = n.job.resolve
      /\ m.job.done = n.job.done /\ m.job.success = n.job.success /\ m.job.save = n.job.save
      /\ m.job.header_done = n.job.header_done /\ m.job.body = n.job.body /\ m.job.sent = n.job.sent
      /\ JobBut(n, m, {"pending", "resolve", "addr", "late", "stage", "pcb", "header_done", "status",
                       "clen", "body", "save", "sent"})
  BY <1>1 DEF Closing, JobBut, JobFields
<1>4. Tweaked(n, m)
  BY <1>0, <1>1, <1>2, <1>3 DEF Tweaked, Closing, Shape, Fields
<1>5. Alone(m) <=> Alone(n)
  BY <1>3 DEF Alone
<1>6. Alone(n) => DOMAIN m.conns = {}
  BY <1>0, <1>1 DEF Closing, Whole
<1>7. Whole(m)
  BY <1>0, <1>3, <1>5, <1>6 DEF Whole
<1>8. Keeps(n, m)
  BY <1>0, <1>2, <1>3 DEF Keeps, Shape
<1> QED BY <1>0, <1>1, <1>4, <1>5, <1>6, <1>7, <1>8, TweakedKept DEF NetInv, m

LEMMA CloseAndFail ==
    ASSUME NEW n, NetInv(n)
    PROVE  NetInv(FinishFailed(ClosePcb(n))) /\ Keeps(n, FinishFailed(ClosePcb(n)))
<1> DEFINE m == ClosePcb(n)
           k == FinishFailed(m)
<1>1. NetInv(m) /\ Keeps(n, m) /\ (Alone(m) => DOMAIN m.conns = {})
  BY ClosePcbInv
<1>2. Shape(n) /\ Shape(m) /\ Fields(m)
  BY <1>1 DEF NetInv, Shape
<1> HIDE DEF m
<1>3. Failed(m, k)
  BY <1>2, FinishFailedFields
<1> HIDE DEF k
<1>4. NetInv(k) /\ Keeps(m, k)
  BY <1>1, <1>3, FailedInv
<1>5. Keeps(n, k)
  BY <1>1, <1>2, <1>4, KeepsTrans DEF NetInv
<1> QED BY <1>4, <1>5 DEF k, m

LEMMA ReceiveImageInv ==
    ASSUME NEW n, NetInv(n), ~n.job.active, n.job.kind = "image", NEW decodes, NEW m \in ReceiveImage(n, decodes)
    PROVE  NetInv(m) /\ Keeps(n, m)
<1> DEFINE r == IF decodes THEN [n EXCEPT !.ns.ready = TRUE, !.ns.loading = FALSE]
                ELSE [n EXCEPT !.ns.loading = FALSE]
<1>0. Shape(n) /\ Numbered(n) /\ Gate(n) /\ Whole(n) /\ Fields(n)
  BY DEF NetInv, Shape
<1>1. /\ NetBut(n, r, {"ns"}) /\ NsBut(n, r, {"ready", "loading"})
      /\ ~r.ns.ready => ~n.ns.ready
  BY <1>0 DEF Fields, NetBut, NsBut, NetFields, NsFields
<1>2. m = r \/ m \in ProcessQueued(r)
  BY DEF ReceiveImage
<1> HIDE DEF r
<1>3. /\ DOMAIN r = NetFields /\ r.job = n.job /\ r.save = n.save /\ r.conns = n.conns
      /\ r.next = n.next
  BY <1>1 DEF NetBut, NetFields
<1>4. /\ DOMAIN r.ns = NsFields /\ r.ns.waiting = n.ns.waiting /\ r.ns.q = n.ns.q
      /\ r.ns.has = n.ns.has /\ r.ns.img = n.ns.img
      /\ r.ns.map = n.ns.map /\ r.ns.url = n.ns.url /\ r.ns.reset = n.ns.reset
      /\ r.ns.used = n.ns.used /\ r.ns.hasty = n.ns.hasty /\ r.ns.upset = n.ns.upset
  BY <1>1 DEF NsBut, NsFields
<1>5. Shape(r)
  BY <1>0, <1>3, <1>4 DEF Shape, Fields
<1>6. /\ Numbers(r.ns) = Numbers(n.ns) /\ Tidy(r.ns) /\ (Fresh(n.ns) <=> Fresh(r.ns))
      /\ Calm(n.ns) /\ Fresh(n.ns) => Calm(r.ns)
  BY <1>0, <1>1, <1>4 DEF Numbers, Targets, Gate, Tidy, Calm, Unused, Fresh
<1>7. Numbered(r) /\ Whole(r)
  BY <1>0, <1>3, <1>6 DEF Numbered, Whole, Alone
<1>8. Gate(r)
  BY <1>0, <1>3, <1>4, <1>6 DEF Gate
<1>9. NetInv(r) /\ Keeps(n, r)
  BY <1>0, <1>3, <1>5, <1>7, <1>8 DEF NetInv, Keeps, Shape
<1>10. CASE m \in ProcessQueued(r)
  <2>1. NetInv(m) /\ Keeps(r, m)
    BY <1>9, <1>10, ProcessQueuedInv
  <2> QED BY <2>1, <1>3 DEF Keeps
<1> QED BY <1>2, <1>9, <1>10

(* wget_finish(1, ...) with the whole body *)
LEMMA FinishInv ==
    ASSUME NEW n, NetInv(n),
           Alone(n) => /\ DOMAIN n.conns = {} /\ ~n.job.pending
                       /\ n.job.body = Units(n.job.sent, n.job.id),
           NEW m \in Finish(n)
    PROVE  NetInv(m) /\ Keeps(n, m)
<1> DEFINE f == [n EXCEPT !.job.success = TRUE, !.job.done = TRUE, !.job.active = FALSE, !.job.stage = "IDLE"]
<1>0. Shape(n) /\ Numbered(n) /\ Gate(n) /\ Whole(n) /\ Fields(n)
  BY DEF NetInv, Shape
<1>1. /\ NetBut(n, f, {"job"}) /\ JobBut(n, f, {"success", "done", "active", "stage"})
      /\ f.job.success /\ f.job.done /\ ~f.job.active
  BY <1>0 DEF Fields, NetBut, JobBut, NetFields, JobFields
<1>2. \/ n.job.kind = "page" /\ m \in CompleteData(f)
      \/ n.job.kind # "page" /\ (m = f \/ (n.job.kind = "image" /\ \E decodes \in BOOLEAN : m \in ReceiveImage(f, decodes)))
  <2>1. CASE n.job.kind = "page"
    BY <2>1 DEF Finish
  <2>2. CASE n.job.kind = "image"
    BY <2>2 DEF Finish
  <2>3. CASE n.job.kind # "page" /\ n.job.kind # "image"
    BY <2>3 DEF Finish
  <2> QED BY <2>1, <2>2, <2>3
<1> HIDE DEF f
<1>3. /\ DOMAIN f = NetFields /\ f.ns = n.ns /\ f.save = n.save /\ f.conns = n.conns
      /\ f.next = n.next
  BY <1>1 DEF NetBut, NetFields
<1>4. /\ DOMAIN f.job = JobFields
      /\ f.job.id = n.job.id /\ f.job.kind = n.job.kind /\ f.job.orphans = n.job.orphans
      /\ f.job.pcb = n.job.pcb /\ f.job.pending = n.job.pending /\ f.job.resolve = n.job.resolve
      /\ f.job.owner = n.job.owner /\ f.job.save = n.job.save
      /\ f.job.header_done = n.job.header_done /\ f.job.body = n.job.body /\ f.job.sent = n.job.sent
  BY <1>1 DEF JobBut, JobFields
<1>5. Shape(f)
  BY <1>0, <1>3, <1>4 DEF Shape, Fields
<1>6. Numbered(f)
  BY <1>0, <1>1, <1>3, <1>4 DEF Numbered
<1>7. Whole(f)
  BY <1>0, <1>1, <1>3, <1>4 DEF Whole, Alone
<1>8. Keeps(n, f)
  BY <1>0, <1>1, <1>3, <1>4 DEF Keeps, Shape
<1>9. /\ Tidy(f.ns) /\ (~f.ns.upset => Calm(f.ns))
      /\ f.job.owner = Browser => ~f.job.pending
  BY <1>0, <1>3, <1>4 DEF Gate
<1>10. CASE n.job.kind = "page" /\ m \in CompleteData(f)
  <2>1. NetInv(m) /\ Keeps(f, m)
    BY <1>1, <1>5, <1>6, <1>7, <1>9, <1>10, CompleteDataInv
  <2> QED BY <2>1, <1>0, <1>5, <1>8, KeepsTrans DEF NetInv
<1>11. CASE n.job.kind # "page" /\ (m = f \/ (n.job.kind = "image" /\ \E decodes \in BOOLEAN : m \in ReceiveImage(f, decodes)))
  <2>1. NetInv(f)
    BY <1>0, <1>1, <1>3, <1>4, <1>5, <1>6, <1>7, <1>11 DEF Gate, NetInv
  <2>2. CASE m = f
    BY <2>1, <2>2, <1>8
  <2>3. CASE n.job.kind = "image" /\ \E decodes \in BOOLEAN : m \in ReceiveImage(f, decodes)
    <3>1. NetInv(m) /\ Keeps(f, m)
      BY <2>1, <2>3, <1>1, <1>4, ReceiveImageInv
    <3> QED BY <3>1, <1>0, <1>5, <1>8, KeepsTrans DEF NetInv
  <2> QED BY <1>11, <2>2, <2>3
<1> QED BY <1>2, <1>10, <1>11

-----------------------------------------------------------------------------
(* Frames.                                                                  *)

LEMMA UnitsGrow ==
    ASSUME NEW k \in Nat, NEW c \in Nat
    PROVE  /\ Units(k, c) \in Seq(Nat) /\ Units(0, c) = <<>>
           /\ Append(Units(k, c), c) = Units(k + 1, c)
<1>1. Units(k, c) \in Seq(Nat) /\ Len(Units(k, c)) = k
  BY DEF Units
<1>2. Units(0, c) = <<>>
  BY DEF Units
<1>3. Append(Units(k, c), c) = Units(k + 1, c)
  <2>1. /\ Append(Units(k, c), c) \in Seq(Nat) /\ Len(Append(Units(k, c), c)) = k + 1
        /\ \A i \in 1 .. k + 1 : Append(Units(k, c), c)[i] = c
    BY <1>1 DEF Units
  <2>2. /\ Units(k + 1, c) \in Seq(Nat) /\ Len(Units(k + 1, c)) = k + 1
        /\ \A i \in 1 .. k + 1 : Units(k + 1, c)[i] = c
    BY DEF Units
  <2> QED BY <2>1, <2>2, SeqEqual
<1> QED BY <1>1, <1>2, <1>3

(* A unit of the body has been counted and not stored. *)
Half(n, c) ==
    Alone(n) =>
        /\ DOMAIN n.conns \subseteq {n.job.id} /\ c = n.job.id
        /\ n.job.pcb = n.job.id /\ n.job.resolve = "no" /\ ~n.job.pending /\ ~n.job.success
        /\ n.job.id \in DOMAIN n.conns => n.conns[n.job.id].hdr = "sent"
        /\ n.job.sent > 0 /\ n.job.body = Units(n.job.sent - 1, n.job.id)

LEMMA BodyInv ==
    ASSUME NEW n, NEW c \in Nat, Shape(n), Numbered(n), Gate(n), Half(n, c),
           ~n.job.done, n.job.header_done, NEW m \in Body(n, c)
    PROVE  NetInv(m) /\ Keeps(n, m)
<1> DEFINE a == [n EXCEPT !.job.body = Append(@, c)]
<1>0. Fields(n)
  BY DEF Shape
<1>1. \/ m = FinishFailed(ClosePcb(n)) \/ m = a \/ m \in Finish(ClosePcb(a))
  BY DEF Body
<1>2. CASE m = FinishFailed(ClosePcb(n))
  <2> DEFINE x == ClosePcb(n)
  <2>1. Closing(n, x)
    BY <1>0, ClosePcbFields
  <2> HIDE DEF x
  <2>2. /\ x.save = n.save /\ x.next = n.next
        /\ NetBut(n, x, {"job", "save", "conns", "asked"})
    BY <2>1 DEF Closing, NetBut, NetFields
  <2>3. /\ x.job.id = n.job.id /\ x.job.kind = n.job.kind /\ x.job.orphans = n.job.orphans
        /\ x.job.pending = n.job.pending /\ x.job.resolve = n.job.resolve
        /\ x.job.done = n.job.done /\ x.job.success = n.job.success /\ x.job.save = n.job.save
        /\ x.job.body = n.job.body /\ x.job.sent = n.job.sent
        /\ JobBut(n, x, {"pending", "resolve", "addr", "late", "stage", "pcb", "header_done", "status",
                         "clen", "body", "save", "sent"})
    BY <2>1 DEF Closing, JobBut, JobFields
  <2>4. Tweaked(n, x)
    BY <1>0, <2>1, <2>2, <2>3 DEF Tweaked, Closing, Shape, Fields
  <2>5. Alone(x) => DOMAIN x.conns = {} /\ ~x.job.pending /\ ~x.job.success
    BY <2>1, <2>3 DEF Alone, Half, Closing
  <2>6. NetInv(x) /\ Keeps(n, x)
    <3>1. Whole(x)
      BY <2>5 DEF Whole
    <3>2. Keeps(n, x)
      BY <2>2, <2>3 DEF Keeps, Shape
    <3> QED BY <2>4, <3>1, <3>2, TweakedKept DEF NetInv
  <2>7. NetInv(m) /\ Keeps(x, m)
    <3>1. Failed(x, m)
      BY <1>2, <2>6, FinishFailedFields DEF x, NetInv, Shape
    <3> QED BY <3>1, <2>5, <2>6, FailedInv
  <2> QED BY <2>6, <2>7, KeepsTrans DEF NetInv
<1>3. ASSUME m = a \/ m \in Finish(ClosePcb(a))
      PROVE  NetInv(m) /\ Keeps(n, m)
  <2>1. NetBut(n, a, {"job"}) /\ JobBut(n, a, {"body"}) /\ a.job.body = Append(n.job.body, c)
    BY <1>0 DEF Fields, NetBut, JobBut, NetFields, JobFields
  <2> HIDE DEF a
  <2>2. /\ NetBut(n, a, {"job", "save", "conns", "asked"}) /\ a.save = n.save /\ a.conns = n.conns
        /\ a.next = n.next
    BY <2>1 DEF NetBut, NetFields
  <2>3. /\ a.job.id = n.job.id /\ a.job.kind = n.job.kind /\ a.job.orphans = n.job.orphans
        /\ a.job.pending = n.job.pending /\ a.job.resolve = n.job.resolve /\ a.job.pcb = n.job.pcb
        /\ a.job.done = n.job.done /\ a.job.success = n.job.success /\ a.job.save = n.job.save
        /\ a.job.sent = n.job.sent /\ a.job.header_done = n.job.header_done
        /\ JobBut(n, a, {"pending", "resolve", "addr", "late", "stage", "pcb", "header_done", "status",
                         "clen", "body", "save", "sent"})
    BY <2>1 DEF JobBut, JobFields
  <2>4. n.job.id \in Nat /\ n.job.sent \in Nat /\ n.job.body \in Seq(Nat)
    BY DEF Shape
  <2>5. a.job.body \in Seq(Nat)
    BY <2>1, <2>4
  <2>6. Tweaked(n, a)
    BY <1>0, <2>2, <2>3, <2>5 DEF Tweaked, Shape, Fields
  <2>7. Alone(a) => Alone(n) /\ a.job.body = Units(a.job.sent, a.job.id)
    <3>1. Alone(a) => Alone(n)
      BY <2>3 DEF Alone
    <3>2. ASSUME Alone(n) PROVE Append(n.job.body, c) = Units(n.job.sent, n.job.id)
      <4>1. c = n.job.id /\ n.job.sent > 0 /\ n.job.body = Units(n.job.sent - 1, n.job.id)
        BY <3>2 DEF Half
      <4>2. n.job.sent - 1 \in Nat /\ (n.job.sent - 1) + 1 = n.job.sent
        BY <4>1, <2>4
      <4>3. Append(Units(n.job.sent - 1, n.job.id), n.job.id) = Units((n.job.sent - 1) + 1, n.job.id)
        BY <4>2, <2>4, UnitsGrow
      <4> QED BY <4>1, <4>2, <4>3
    <3> QED BY <3>1, <3>2, <2>1, <2>3
  <2>8. Whole(a)
    BY <2>2, <2>3, <2>7 DEF Half, Whole
  <2>9. NetInv(a) /\ Keeps(n, a)
    BY <2>2, <2>3, <2>6, <2>8, TweakedKept DEF NetInv, Keeps, Shape
  <2>10. CASE m \in Finish(ClosePcb(a))
    <3> DEFINE y == ClosePcb(a)
    <3>1. NetInv(y) /\ Keeps(a, y) /\ Closing(a, y) /\ (Alone(y) <=> Alone(a))
          /\ (Alone(a) => DOMAIN y.conns = {})
      BY <2>9, ClosePcbInv
    <3> HIDE DEF y
    <3>2. /\ y.job.pending = a.job.pending /\ y.job.body = a.job.body
          /\ y.job.sent = a.job.sent /\ y.job.id = a.job.id
      BY <3>1 DEF Closing, JobBut, JobFields
    <3>3. Alone(y) => /\ DOMAIN y.conns = {} /\ ~y.job.pending
                      /\ y.job.body = Units(y.job.sent, y.job.id)
      BY <3>1, <3>2, <2>3, <2>7 DEF Half
    <3>4. NetInv(m) /\ Keeps(y, m)
      BY <2>10, <3>1, <3>3, FinishInv DEF y
    <3>5. Keeps(a, m)
      BY <2>9, <3>1, <3>4, KeepsTrans DEF NetInv
    <3> QED BY <2>9, <3>4, <3>5, KeepsTrans DEF NetInv
  <2> QED BY <1>3, <2>9, <2>10
<1> QED BY <1>1, <1>2, <1>3

(* netsurf_feed_data with a unit of a page whose number is not known yet *)
LEMMA FeedDataNs ==
    ASSUME NEW n, Shape(n), Gate(n), NEW c \in DOMAIN n.conns, c \notin Numbers(n.ns)
    PROVE  LET f == FeedData(n, c)  b == f.ns IN
           /\ NetBut(n, f, {"ns"}) /\ DOMAIN b = NsFields /\ b.q = n.ns.q /\ Tidy(b)
           /\ b.upset = n.ns.upset
           /\ ~b.upset => /\ Calm(b) /\ (b.waiting => n.ns.waiting)
                          /\ Busy(n.ns) => Busy(b)
           /\ Numbers(b) \subseteq Numbers(n.ns) \cup {0, c}
           /\ c \in Numbers(b) => n.conns[c].sent + 1 = n.conns[c].resp.len
<1> DEFINE f == FeedData(n, c)
           resp == n.conns[c].resp
           b0 == IF n.ns.reset THEN [ResetDoc(n.ns, TRUE) EXCEPT !.reset = FALSE] ELSE n.ns
           token == n.conns[c].sent + 1 = resp.len /\ resp.img # "none" /\ ~b0.has
           b == IF ~token THEN b0
                ELSE [b0 EXCEPT !.has = TRUE, !.loading = TRUE, !.img = c,
                                !.map = IF resp.img = "map" THEN c ELSE 0,
                                !.waiting = @ /\ resp.img # "map"]
<1>0. Fields(n) /\ c # 0 /\ n.ns.q \in Seq(Nat)
  BY DEF Shape
<1>1. f = [n EXCEPT !.ns = b]
  BY DEF FeedData
<1>2. NetBut(n, f, {"ns"}) /\ f.ns = b
  BY <1>0, <1>1 DEF Fields, NetBut, NetFields
<1>3. /\ DOMAIN b0 = NsFields /\ b0.q = n.ns.q /\ b0.upset = n.ns.upset /\ b0.used = n.ns.used
      /\ b0.waiting = n.ns.waiting /\ b0.img = n.ns.img /\ b0.url = n.ns.url
      /\ b0.hasty = n.ns.hasty /\ (b0.ready <=> n.ns.ready)
      /\ n.ns.reset => b0.map = 0 /\ ~b0.has /\ ~b0.loading /\ ~b0.reset
      /\ ~n.ns.reset => b0 = n.ns
  BY <1>0 DEF ResetDoc, Fields, NsFields
<1>4. /\ Tidy(b0)
      /\ ~b0.upset => Calm(b0) /\ (Busy(n.ns) => Busy(b0))
  BY <1>3 DEF Gate, Tidy, Calm, Unused, Fresh, Busy
<1>5. Numbers(b0) \subseteq Numbers(n.ns) \cup {0}
  BY <1>3 DEF Numbers, Targets
<1> HIDE DEF b0
<1>6. CASE ~token
  <2>1. b = b0
    BY <1>6
  <2> HIDE DEF b
  <2>2. c \notin Numbers(b)
    BY <2>1, <1>0, <1>5
  <2> QED BY <2>1, <2>2, <1>2, <1>3, <1>4, <1>5
<1>7. CASE token
  <2>1. /\ DOMAIN b = NsFields /\ b.q = b0.q /\ b.upset = b0.upset /\ b.used = b0.used
        /\ b.img = c /\ b.url = b0.url /\ b.hasty = b0.hasty /\ b.ready = b0.ready
        /\ b.reset = b0.reset /\ b.has /\ b.loading
        /\ b.map = IF resp.img = "map" THEN c ELSE 0
        /\ b.waiting <=> b0.waiting /\ resp.img # "map"
    BY <1>3, <1>7 DEF NsFields
  <2>2. n.conns[c].sent + 1 = resp.len /\ ~b0.has /\ b0.map = 0
    BY <1>4, <1>7 DEF Tidy
  <2> HIDE DEF b, token, resp
  <2>3. Numbers(b) \subseteq Numbers(n.ns) \cup {0, c}
    BY <2>1, <1>5 DEF Numbers, Targets
  <2>4. c \notin b.used
    BY <2>1, <1>3 DEF Numbers
  <2>5. Tidy(b) /\ Busy(b)
    BY <2>1, <1>4 DEF Tidy, Busy
  <2>6. ~b.upset => ~b.hasty /\ (b.reset => b.waiting)
    <3>1. ~b.upset => ~b0.reset
      BY <2>1, <1>3, <1>4 DEF Calm, Gate
    <3> QED BY <3>1, <2>1, <1>4 DEF Calm
  <2>7. ~b.upset => Unused(b)
    <3>1. CASE resp.img = "map"
      BY <3>1, <1>0, <2>1, <2>4 DEF Unused
    <3>2. CASE resp.img # "map"
      BY <3>2, <2>1, <2>2, <2>4, <1>4 DEF Unused, Calm
    <3> QED BY <3>1, <3>2
  <2> QED BY <1>2, <1>3, <2>1, <2>2, <2>3, <2>5, <2>6, <2>7 DEF Calm, resp
<1> QED BY <1>6, <1>7

Parts == {"none", "part", "end", "straddle"}

LEMMA MayComeParts ==
    ASSUME NEW conn, NEW h \in Parts, NEW u, NEW resp, MayCome(conn, h, u, resp)
    PROVE  /\ h = "part" => u = 0 /\ conn.hdr = "none"
           /\ h = "none" => u = 1 /\ conn.hdr = "sent"
           /\ h \in {"end", "straddle"} => conn.hdr # "sent"
<1>1. CASE h = "part"
  BY <1>1 DEF MayCome
<1>2. CASE h = "none"
  BY <1>2 DEF MayCome
<1>3. CASE h = "end"
  BY <1>3 DEF MayCome
<1>4. CASE h = "straddle"
  BY <1>4 DEF MayCome
<1> QED BY <1>1, <1>2, <1>3, <1>4 DEF Parts

(* Recv before it looks at done: the packet is counted, the parser fed. *)
Counted(n0, c, h, u, resp) ==
    LET n == [n0 EXCEPT !.conns[c].resp = resp]
    IN  [Feed(n, c, h, u) EXCEPT !.conns[c].sent = @ + u,
                                 !.conns[c].hdr = IF h = "part" THEN "part" ELSE "sent",
                                 !.job.sent = IF c = n.job.id THEN @ + u ELSE @]

LEMMA CountedInv ==
    ASSUME NEW n0, NetInv(n0), NEW c \in DOMAIN n0.conns, NEW h \in Parts, NEW u \in {0, 1}, NEW resp,
           MayCome(n0.conns[c], h, u, resp)
    PROVE  LET m == Counted(n0, c, h, u, resp) IN
           /\ Shape(m) /\ Numbered(m) /\ Gate(m)
           /\ JobBut(n0, m, {"header_done", "sent"})
           /\ n0.job.kind # "page" => m.job.header_done = n0.job.header_done
           /\ m.job.sent = IF c = n0.job.id THEN n0.job.sent + u ELSE n0.job.sent
           /\ m.save = n0.save /\ m.next = n0.next
           /\ DOMAIN m.conns = DOMAIN n0.conns
           /\ m.conns[c].hdr = IF h = "part" THEN "part" ELSE "sent"
<1> DEFINE n == [n0 EXCEPT !.conns[c].resp = resp]
           f == Feed(n, c, h, u)
           e == IF h = "end" THEN [n EXCEPT !.job.header_done = TRUE] ELSE n
           m == Counted(n0, c, h, u, resp)
<1>0. Shape(n0) /\ Numbered(n0) /\ Gate(n0) /\ Fields(n0) /\ c \in Nat \ {0}
  BY DEF NetInv, Shape
<1>1. /\ NetBut(n0, n, {"conns"}) /\ DOMAIN n.conns = DOMAIN n0.conns
      /\ \A d \in DOMAIN n.conns : d # c => n.conns[d] = n0.conns[d]
      /\ DOMAIN n.conns[c] = ConnFields /\ n.conns[c].sent = n0.conns[c].sent
      /\ n.conns[c].resp = resp
  BY <1>0 DEF Shape, Fields, NetBut, NetFields, ConnFields
<1> HIDE DEF n
<1>2. /\ n.job = n0.job /\ n.save = n0.save /\ n.asked = n0.asked /\ n.ns = n0.ns /\ n.next = n0.next
      /\ DOMAIN n = NetFields
  BY <1>1 DEF NetBut, NetFields
<1>3. Shape(n) /\ Gate(n) /\ Fields(n)
  BY <1>0, <1>1, <1>2 DEF Shape, Fields, Gate
<1>4. c \notin Numbers(n.ns)
  <2>1. ~Delivered(n0.conns[c])
    BY DEF Parts, MayCome, Delivered
  <2> QED BY <2>1, <1>0, <1>2 DEF Numbered
<1>5. /\ NetBut(n, e, {"job"}) /\ JobBut(n, e, {"header_done"})
      /\ e.ns = n.ns /\ e.conns = n.conns /\ e.next = n.next /\ e.save = n.save
      /\ DOMAIN e = NetFields /\ Fields(e)
      /\ e.job.owner = n.job.owner /\ e.job.pending = n.job.pending
      /\ e.job.active = n.job.active /\ e.job.kind = n.job.kind
      /\ e.job.id = n.job.id /\ e.job.body = n.job.body /\ e.job.sent = n.job.sent
      /\ e.job.resolve = n.job.resolve
  <2>1. NetBut(n, e, {"job"}) /\ JobBut(n, e, {"header_done"})
    BY <1>3 DEF Fields, NetBut, JobBut, NetFields, JobFields
  <2> QED BY <2>1, <1>3 DEF Fields, NetBut, JobBut, NetFields, JobFields
<1>6. Shape(e) /\ Gate(e)
  BY <1>3, <1>5 DEF Shape, Gate
<1>7. \/ f = n
      \/ n.job.active /\ n.job.kind = "page" /\ (f = e \/ (u = 1 /\ f = FeedData(e, c)))
  BY DEF Feed
<1> HIDE DEF e
<1>8. /\ NetBut(n, f, {"job", "ns"}) /\ JobBut(n, f, {"header_done"})
      /\ n.job.kind # "page" => f = n
      /\ DOMAIN f.ns = NsFields /\ f.ns.q = n.ns.q /\ Tidy(f.ns)
      /\ f.ns.upset = n.ns.upset
      /\ ~f.ns.upset => /\ Calm(f.ns) /\ (f.ns.waiting => n.ns.waiting)
                        /\ Busy(n.ns) => Busy(f.ns)
      /\ Numbers(f.ns) \subseteq Numbers(n.ns) \cup {0, c}
      /\ c \in Numbers(f.ns) => u = 1 /\ n.conns[c].sent + 1 = n.conns[c].resp.len
      /\ f.ns # n.ns => ~n.job.pending
  <2>1. CASE f = n
    BY <2>1, <1>3, <1>4 DEF NetBut, JobBut, Fields, Gate
  <2>2. CASE n.job.kind = "page" /\ f = e
    BY <2>2, <1>3, <1>4, <1>5 DEF NetBut, JobBut, Fields, Gate, NetFields, JobFields
  <2>3. CASE n.job.active /\ n.job.kind = "page" /\ u = 1 /\ f = FeedData(e, c)
    <3>1. /\ NetBut(e, f, {"ns"}) /\ DOMAIN f.ns = NsFields /\ f.ns.q = e.ns.q /\ Tidy(f.ns)
          /\ f.ns.upset = e.ns.upset
          /\ ~f.ns.upset => /\ Calm(f.ns) /\ (f.ns.waiting => e.ns.waiting)
                            /\ Busy(e.ns) => Busy(f.ns)
          /\ Numbers(f.ns) \subseteq Numbers(e.ns) \cup {0, c}
          /\ c \in Numbers(f.ns) => e.conns[c].sent + 1 = e.conns[c].resp.len
      BY <2>3, <1>1, <1>4, <1>5, <1>6, FeedDataNs
    <3>2. f.job = e.job /\ NetBut(n, f, {"job", "ns"})
      BY <3>1, <1>5 DEF NetBut, NetFields
    <3>3. JobBut(n, f, {"header_done"})
      BY <3>2, <1>5 DEF JobBut
    <3>4. ~n.job.pending
      BY <2>3, <1>0, <1>2 DEF Numbered
    <3> HIDE DEF f
    <3> QED BY <3>1, <3>2, <3>3, <3>4, <2>3, <1>5
  <2> QED BY <2>1, <2>2, <2>3, <1>7
<1>9. Fields(f) /\ f.conns = n.conns
  BY <1>3, <1>8 DEF Fields, NetBut, JobBut, NetFields
<1>10. m = [f EXCEPT !.conns[c].sent = @ + u, !.conns[c].hdr = IF h = "part" THEN "part" ELSE "sent",
                     !.job.sent = IF c = n.job.id THEN @ + u ELSE @]
  BY DEF Counted, n
<1> HIDE DEF f
<1>11. /\ NetBut(f, m, {"conns", "job"}) /\ DOMAIN m.conns = DOMAIN f.conns
       /\ \A d \in DOMAIN m.conns : d # c => m.conns[d] = f.conns[d]
       /\ DOMAIN m.conns[c] = ConnFields /\ m.conns[c].sent = f.conns[c].sent + u
       /\ m.conns[c].resp = f.conns[c].resp
       /\ m.conns[c].hdr = IF h = "part" THEN "part" ELSE "sent"
  <2>1. c \in DOMAIN f.conns /\ DOMAIN f.conns[c] = ConnFields /\ DOMAIN f = NetFields
    BY <1>1, <1>9 DEF Fields
  <2>2. NetBut(f, m, {"conns", "job"})
    BY <2>1, <1>10 DEF NetBut, NetFields
  <2>3. /\ DOMAIN m.conns = DOMAIN f.conns
        /\ \A d \in DOMAIN m.conns : d # c => m.conns[d] = f.conns[d]
    BY <2>1, <1>10 DEF NetFields
  <2>4. /\ DOMAIN m.conns[c] = ConnFields /\ m.conns[c].sent = f.conns[c].sent + u
        /\ m.conns[c].resp = f.conns[c].resp
        /\ m.conns[c].hdr = IF h = "part" THEN "part" ELSE "sent"
    BY <2>1, <1>10 DEF NetFields, ConnFields
  <2> QED BY <2>2, <2>3, <2>4
<1>12. /\ JobBut(f, m, {"sent"})
       /\ m.job.sent = IF c = n.job.id THEN f.job.sent + u ELSE f.job.sent
  BY <1>9, <1>10 DEF Fields, JobBut, NetFields, JobFields
<1> HIDE DEF m
<1>13. /\ JobBut(n0, m, {"header_done", "sent"})
       /\ n0.job.kind # "page" => m.job.header_done = n0.job.header_done
       /\ m.job.sent = IF c = n0.job.id THEN n0.job.sent + u ELSE n0.job.sent
  BY <1>2, <1>8, <1>12 DEF JobBut, JobFields
<1>14. /\ m.save = n0.save /\ m.next = n0.next /\ m.ns = f.ns /\ DOMAIN m = NetFields
       /\ DOMAIN m.conns = DOMAIN n0.conns
  BY <1>1, <1>2, <1>8, <1>9, <1>11 DEF NetBut, NetFields
<1>15. /\ DOMAIN m.job = JobFields
       /\ m.job.id = n0.job.id /\ m.job.kind = n0.job.kind /\ m.job.owner = n0.job.owner
       /\ m.job.pending = n0.job.pending /\ m.job.active = n0.job.active
       /\ m.job.resolve = n0.job.resolve /\ m.job.body = n0.job.body
  BY <1>13 DEF JobBut, JobFields
<1>16. /\ \A d \in DOMAIN m.conns : d # c => m.conns[d] = n0.conns[d]
       /\ m.conns[c].sent = n0.conns[c].sent + u /\ m.conns[c].resp = resp
  BY <1>1, <1>9, <1>11
<1>17. n0.conns[c].sent \in Nat /\ n0.job.sent \in Nat
  BY <1>0 DEF Shape
<1>18. Shape(m)
  <2>1. DOMAIN m.ns = NsFields /\ m.ns.q \in Seq(Nat) /\ DOMAIN m.save = SaveFields
    BY <1>0, <1>2, <1>8, <1>14 DEF Shape, Fields
  <2>2. m.job.sent \in Nat /\ m.conns[c].sent \in Nat
    BY <1>13, <1>16, <1>17
  <2>3. \A d \in DOMAIN m.conns : DOMAIN m.conns[d] = ConnFields /\ m.conns[d].sent \in Nat
    BY <1>0, <1>11, <1>14, <1>16, <2>2 DEF Shape
  <2> QED BY <1>0, <1>14, <1>15, <2>1, <2>2, <2>3 DEF Shape, Fields
<1>19. Numbered(m)
  <2>1. \A x \in Numbers(m.ns) : x \in Nat /\ x < m.next
    BY <1>0, <1>2, <1>8, <1>14 DEF Numbered, Shape
  <2>2. ASSUME NEW d \in DOMAIN m.conns, d \in Numbers(m.ns) PROVE Delivered(m.conns[d])
    <3>1. CASE d # c
      <4>1. d # 0 /\ d \in DOMAIN n0.conns
        BY <1>0, <1>14, <2>2 DEF Shape
      <4>2. d \in Numbers(n0.ns)
        BY <4>1, <3>1, <2>2, <1>2, <1>8, <1>14
      <4> QED BY <3>1, <4>1, <4>2, <1>0, <1>16, <2>2 DEF Numbered
    <3>2. CASE d = c
      <4>1. u = 1 /\ n0.conns[c].sent + 1 = resp.len
        BY <3>2, <2>2, <1>1, <1>8, <1>14
      <4>2. h # "part"
        BY <4>1, MayComeParts
      <4> QED BY <3>2, <4>1, <4>2, <1>11, <1>16, <1>17 DEF Delivered
    <3> QED BY <3>1, <3>2
  <2>3. m.job.pending => ~m.job.active /\ m.job.id # 0 /\ m.job.id \notin Numbers(m.ns)
    BY <1>0, <1>2, <1>8, <1>14, <1>15 DEF Numbered
  <2> QED BY <2>1, <2>2, <2>3 DEF Numbered
<1>20. Gate(m)
  <2>1. (~m.ns.upset => ~n0.ns.upset) /\ (n0.job.kind # "page" => m.ns = n0.ns)
    BY <1>2, <1>8, <1>14
  <2> QED BY <2>1, <1>0, <1>2, <1>8, <1>14, <1>15 DEF Gate
<1> QED BY <1>11, <1>13, <1>14, <1>18, <1>19, <1>20 DEF m

(* wget_recv_cb *)
LEMMA RecvInv ==
    ASSUME NEW n0, NetInv(n0), NEW c \in DOMAIN n0.conns, NEW h \in Parts, NEW u \in {0, 1}, NEW resp,
           MayCome(n0.conns[c], h, u, resp), NEW k \in Recv(n0, c, h, u, resp)
    PROVE  NetInv(k) /\ Keeps(n0, k)
<1> DEFINE m == Counted(n0, c, h, u, resp)
           hp == HeaderParsed(m, resp)
<1>0. Shape(n0) /\ Numbered(n0) /\ Gate(n0) /\ Whole(n0) /\ c \in Nat
  BY DEF NetInv, Shape
<1>1. \/ m.job.done /\ k = m
      \/ ~m.job.done /\ m.job.header_done /\ k \in Body(m, c)
      \/ /\ ~m.job.done /\ ~m.job.header_done /\ h \in {"end", "straddle"}
         /\ k \in AfterHeader(hp, c, u)
      \/ /\ ~m.job.done /\ ~m.job.header_done /\ h \notin {"end", "straddle"}
         /\ (k = m \/ k = FinishFailed(ClosePcb(m)))
  BY DEF Recv, Counted
<1>2. /\ Shape(m) /\ Numbered(m) /\ Gate(m)
      /\ JobBut(n0, m, {"header_done", "sent"})
      /\ n0.job.kind # "page" => m.job.header_done = n0.job.header_done
      /\ m.job.sent = IF c = n0.job.id THEN n0.job.sent + u ELSE n0.job.sent
      /\ m.save = n0.save /\ m.next = n0.next
      /\ DOMAIN m.conns = DOMAIN n0.conns
      /\ m.conns[c].hdr = IF h = "part" THEN "part" ELSE "sent"
  BY CountedInv
<1> HIDE DEF m
<1>3. /\ DOMAIN m.job = JobFields
      /\ m.job.id = n0.job.id /\ m.job.kind = n0.job.kind /\ m.job.orphans = n0.job.orphans
      /\ m.job.pending = n0.job.pending /\ m.job.done = n0.job.done /\ m.job.success = n0.job.success
      /\ m.job.resolve = n0.job.resolve /\ m.job.body = n0.job.body /\ m.job.pcb = n0.job.pcb
      /\ m.job.save = n0.job.save
  BY <1>2 DEF JobBut, JobFields
<1>4. Alone(m) <=> Alone(n0)
  BY <1>3 DEF Alone
<1>5. Keeps(n0, m)
  BY <1>0, <1>2, <1>3 DEF Keeps, Shape
<1>6. Alone(n0) =>
         /\ c = n0.job.id /\ DOMAIN m.conns = {n0.job.id}
         /\ m.job.sent = n0.job.sent + u /\ m.job.header_done = n0.job.header_done
         /\ n0.job.pcb = n0.job.id /\ n0.job.resolve = "no" /\ ~n0.job.pending /\ ~n0.job.success
         /\ n0.job.done => ~n0.job.header_done
         /\ ~n0.job.done /\ ~n0.job.header_done =>
               n0.conns[c].hdr # "sent" /\ n0.job.body = <<>> /\ n0.job.sent = 0
         /\ ~n0.job.done /\ n0.job.header_done =>
               n0.conns[c].hdr = "sent" /\ n0.job.body = Units(n0.job.sent, n0.job.id)
  BY <1>0, <1>2 DEF Whole, Alone
<1>7. Alone(m) => c = m.job.id /\ m.conns[m.job.id].hdr = IF h = "part" THEN "part" ELSE "sent"
  BY <1>2, <1>3, <1>4, <1>6
<1>8. n0.job.sent \in Nat /\ n0.job.id \in Nat /\ m.job.sent \in Nat
  BY <1>0, <1>2 DEF Shape
<1>9. CASE m.job.done /\ k = m
  <2>1. Whole(m)
    BY <1>3, <1>4, <1>6, <1>9 DEF Whole
  <2> QED BY <2>1, <1>2, <1>5, <1>9 DEF NetInv
<1>10. CASE ~m.job.done /\ m.job.header_done /\ k \in Body(m, c)
  <2>1. Half(m, c)
    <3>1. Alone(m) => h = "none" /\ u = 1
      BY <1>3, <1>4, <1>6, <1>10, MayComeParts DEF Parts
    <3>2. Alone(m) => m.job.sent - 1 = n0.job.sent
      BY <3>1, <1>4, <1>6, <1>8
    <3>3. Alone(m) => ~n0.job.done /\ n0.job.header_done /\ m.job.sent = n0.job.sent + 1
      BY <3>1, <1>3, <1>4, <1>6, <1>10
    <3>4. Alone(m) => m.job.sent > 0
      BY <3>3, <1>8
    <3>5. Alone(m) => m.job.body = Units(n0.job.sent, m.job.id)
      BY <3>3, <1>3, <1>4, <1>6
    <3>6. Alone(m) => m.job.sent > 0 /\ m.job.body = Units(m.job.sent - 1, m.job.id)
      BY <3>2, <3>4, <3>5
    <3>7. Alone(m) => m.conns[m.job.id].hdr = "sent"
      BY <3>1, <1>7
    <3> QED BY <3>6, <3>7, <1>3, <1>4, <1>6 DEF Half
  <2>2. NetInv(k) /\ Keeps(m, k)
    BY <2>1, <1>0, <1>2, <1>10, BodyInv
  <2> QED BY <2>2, <1>0, <1>2, <1>5, KeepsTrans DEF NetInv
<1>11. CASE /\ ~m.job.done /\ ~m.job.header_done /\ h \in {"end", "straddle"}
            /\ k \in AfterHeader(hp, c, u)
  <2>0. Fields(m)
    BY <1>2 DEF Shape
  <2>1. /\ NetBut(m, hp, {"job"}) /\ JobBut(m, hp, {"header_done", "status", "clen"})
        /\ hp.job.header_done
    BY <2>0 DEF HeaderParsed, Fields, NetBut, JobBut, NetFields, JobFields
  <2>2. (u = 1 /\ k \in Body(hp, c)) \/ (u = 0 /\ k = hp)
    BY <1>11 DEF AfterHeader
  <2> HIDE DEF hp
  <2>3. /\ NetBut(m, hp, {"job", "save", "conns", "asked"}) /\ hp.save = m.save /\ hp.conns = m.conns
        /\ hp.next = m.next
    BY <2>1 DEF NetBut, NetFields
  <2>4. /\ hp.job.id = m.job.id /\ hp.job.kind = m.job.kind /\ hp.job.orphans = m.job.orphans
        /\ hp.job.pending = m.job.pending /\ hp.job.done = m.job.done /\ hp.job.success = m.job.success
        /\ hp.job.resolve = m.job.resolve /\ hp.job.body = m.job.body /\ hp.job.pcb = m.job.pcb
        /\ hp.job.save = m.job.save /\ hp.job.sent = m.job.sent
        /\ JobBut(m, hp, {"pending", "resolve", "addr", "late", "stage", "pcb", "header_done", "status",
                          "clen", "body", "save", "sent"})
    BY <2>1 DEF JobBut, JobFields
  <2>5. Tweaked(m, hp)
    BY <1>2, <2>3, <2>4 DEF Tweaked, Shape, Fields
  <2>6. Shape(hp) /\ Numbered(hp) /\ Gate(hp)
    BY <1>2, <2>5, TweakedKept
  <2>7. Keeps(n0, hp)
    BY <1>5, <2>3, <2>4 DEF Keeps
  <2>8. Alone(hp) => /\ Alone(n0) /\ hp.job.body = Units(0, n0.job.id) /\ hp.job.sent = u
                     /\ hp.conns[n0.job.id].hdr = "sent"
    <3>1. Alone(hp) => Alone(n0)
      BY <1>4, <2>4 DEF Alone
    <3>2. Units(0, n0.job.id) = <<>>
      BY <1>8, UnitsGrow
    <3>3. Alone(n0) => hp.conns[n0.job.id].hdr = "sent"
      BY <1>3, <1>4, <1>7, <1>11, <2>3
    <3>4. Alone(n0) => ~n0.job.done /\ ~n0.job.header_done /\ hp.job.sent = n0.job.sent + u
      BY <1>3, <1>6, <1>11, <2>4
    <3>5. Alone(n0) => hp.job.body = <<>> /\ hp.job.sent = u
      BY <3>4, <1>3, <1>6, <2>4
    <3> QED BY <3>1, <3>2, <3>3, <3>5
  <2>9. CASE u = 1 /\ k \in Body(hp, c)
    <3>1. Half(hp, c)
      BY <2>8, <2>9, <1>3, <1>6, <2>3, <2>4 DEF Half
    <3>2. NetInv(k) /\ Keeps(hp, k)
      BY <3>1, <2>1, <2>4, <2>6, <2>9, <1>0, <1>11, BodyInv
    <3> QED BY <3>2, <2>6, <2>7, <1>0, KeepsTrans DEF NetInv
  <2>10. CASE u = 0 /\ k = hp
    <3>1. Whole(hp)
      BY <2>1, <2>8, <2>10, <1>3, <1>6, <1>11, <2>3, <2>4 DEF Whole
    <3> QED BY <3>1, <2>6, <2>7, <2>10 DEF NetInv
  <2> QED BY <2>2, <2>9, <2>10
<1>12. CASE /\ ~m.job.done /\ ~m.job.header_done /\ h \notin {"end", "straddle"}
            /\ (k = m \/ k = FinishFailed(ClosePcb(m)))
  <2>1. Alone(m) => h = "part" /\ u = 0
    BY <1>3, <1>4, <1>6, <1>12, MayComeParts DEF Parts
  <2>2. Whole(m)
    <3>1. Alone(m) => m.conns[m.job.id].hdr # "sent"
      BY <2>1, <1>7
    <3>2. Alone(m) => ~n0.job.done /\ ~n0.job.header_done /\ m.job.sent = n0.job.sent + u
      BY <1>3, <1>4, <1>6, <1>12
    <3>3. Alone(m) => m.job.body = <<>> /\ m.job.sent = 0
      BY <2>1, <3>2, <1>3, <1>4, <1>6
    <3> QED BY <3>1, <3>3, <1>3, <1>4, <1>6, <1>12 DEF Whole
  <2>3. NetInv(m)
    BY <2>2, <1>2 DEF NetInv
  <2>4. CASE k = FinishFailed(ClosePcb(m))
    <3>1. NetInv(k) /\ Keeps(m, k)
      BY <2>3, <2>4, CloseAndFail
    <3> QED BY <3>1, <1>0, <1>2, <1>5, KeepsTrans DEF NetInv
  <2> QED BY <2>3, <2>4, <1>5, <1>12
<1> QED BY <1>1, <1>9, <1>10, <1>11, <1>12

(* wget_recv_cb at the end of connection c, wget_err_cb *)
Lost(n, m, c) ==
    /\ NetBut(n, m, {"job", "conns"})
    /\ JobBut(n, m, {"pcb"})
    /\ DOMAIN m.conns = DOMAIN n.conns \ {c}
    /\ \A d \in DOMAIN m.conns : m.conns[d] = n.conns[d]

LEMMA LostInv ==
    ASSUME NEW n, NetInv(n), NEW c \in DOMAIN n.conns, NEW m, Lost(n, m, c)
    PROVE  /\ NetInv(m) /\ Keeps(n, m) /\ (Alone(m) <=> Alone(n))
           /\ Alone(n) => DOMAIN m.conns = {}
<1>0. Shape(n) /\ Numbered(n) /\ Gate(n) /\ Whole(n) /\ Fields(n)
  BY DEF NetInv, Shape
<1>2. /\ m.save = n.save /\ m.next = n.next
      /\ NetBut(n, m, {"job", "save", "conns", "asked"})
  BY DEF Lost, NetBut, NetFields
<1>3. /\ m.job.id = n.job.id /\ m.job.kind = n.job.kind /\ m.job.orphans = n.job.orphans
      /\ m.job.pending = n.job.pending /\ m.job.resolve = n.job.resolve
      /\ m.job.done = n.job.done /\ m.job.success = n.job.success /\ m.job.save = n.job.save
      /\ m.job.header_done = n.job.header_done /\ m.job.body = n.job.body /\ m.job.sent = n.job.sent
      /\ JobBut(n, m, {"pending", "resolve", "addr", "late", "stage", "pcb", "header_done", "status",
                       "clen", "body", "save", "sent"})
  BY DEF Lost, JobBut, JobFields
<1>4. Tweaked(n, m)
  BY <1>0, <1>2, <1>3 DEF Tweaked, Lost, Shape, Fields
<1>5. Alone(m) <=> Alone(n)
  BY <1>3 DEF Alone
<1>6. Alone(n) => DOMAIN m.conns = {}
  BY <1>0 DEF Lost, Whole
<1>7. Whole(m)
  BY <1>0, <1>3, <1>5, <1>6 DEF Whole
<1>8. Keeps(n, m)
  BY <1>0, <1>2, <1>3 DEF Keeps, Shape
<1> QED BY <1>0, <1>4, <1>5, <1>6, <1>7, <1>8, TweakedKept DEF NetInv

LEMMA ErrInv ==
    ASSUME NEW n, NetInv(n), NEW c \in DOMAIN n.conns
    PROVE  NetInv(Err(n, c)) /\ Keeps(n, Err(n, c))
<1> DEFINE m == [n EXCEPT !.conns = Without(@, c), !.job.pcb = 0]
<1>0. Shape(n) /\ Fields(n)
  BY DEF NetInv, Shape
<1>1. Lost(n, m, c)
  BY <1>0 DEF Lost, Without, Fields, NetBut, JobBut, NetFields, JobFields
<1>2. Err(n, c) = m \/ Err(n, c) = FinishFailed(m)
  BY DEF Err
<1> HIDE DEF m
<1>3. NetInv(m) /\ Keeps(n, m) /\ (Alone(m) => DOMAIN m.conns = {})
  BY <1>1, LostInv
<1>4. CASE Err(n, c) = FinishFailed(m)
  <2>1. Failed(m, FinishFailed(m))
    BY <1>3, FinishFailedFields DEF NetInv, Shape
  <2>2. NetInv(FinishFailed(m)) /\ Keeps(m, FinishFailed(m))
    BY <2>1, <1>3, FailedInv
  <2> QED BY <2>2, <1>0, <1>3, <1>4, KeepsTrans DEF NetInv
<1> QED BY <1>2, <1>3, <1>4

LEMMA ClosedInv ==
    ASSUME NEW n, NetInv(n), NEW c \in DOMAIN n.conns, NEW k \in Closed(n, c)
    PROVE  NetInv(k) /\ Keeps(n, k)
<1> DEFINE l == [n EXCEPT !.conns = Without(@, c)]
           m == ClosePcb(l)
<1>0. Shape(n) /\ Fields(n) /\ Whole(n)
  BY DEF NetInv, Shape
<1>1. Lost(n, l, c) /\ l.job = n.job
  BY <1>0 DEF Lost, Without, Fields, NetBut, JobBut, NetFields, JobFields
<1>2. \/ k = FinishFailed(m)
      \/ n.job.header_done /\ k \in Finish(m)
  BY DEF Closed
<1> HIDE DEF l
<1>3. NetInv(l) /\ Keeps(n, l) /\ (Alone(l) <=> Alone(n))
  BY <1>1, LostInv
<1>4. CASE k = FinishFailed(m)
  <2>1. NetInv(k) /\ Keeps(l, k)
    BY <1>3, <1>4, CloseAndFail
  <2> QED BY <2>1, <1>0, <1>3, KeepsTrans DEF NetInv
<1>5. CASE n.job.header_done /\ k \in Finish(m)
  <2>1. /\ NetInv(m) /\ Keeps(l, m) /\ Closing(l, m) /\ (Alone(m) <=> Alone(l))
        /\ Alone(l) => DOMAIN m.conns = {}
    BY <1>3, ClosePcbInv
  <2> HIDE DEF m
  <2>2. /\ m.job.pending = n.job.pending /\ m.job.body = n.job.body
        /\ m.job.sent = n.job.sent /\ m.job.id = n.job.id
    BY <2>1, <1>1 DEF Closing, JobBut, JobFields
  <2>3. Alone(m) => /\ DOMAIN m.conns = {} /\ ~m.job.pending
                    /\ m.job.body = Units(m.job.sent, m.job.id)
    BY <1>0, <1>3, <1>5, <2>1, <2>2 DEF Whole
  <2>4. NetInv(k) /\ Keeps(m, k)
    BY <1>5, <2>1, <2>3, FinishInv
  <2>5. Keeps(l, k)
    BY <1>3, <2>1, <2>4, KeepsTrans DEF NetInv
  <2> QED BY <1>0, <1>3, <2>4, <2>5, KeepsTrans DEF NetInv
<1> QED BY <1>2, <1>4, <1>5

LEMMA ConnectedInv ==
    ASSUME NEW n, NetInv(n), NEW c \in DOMAIN n.conns
    PROVE  NetInv(Connected(n, c)) /\ Keeps(n, Connected(n, c))
<1> DEFINE m == Connected(n, c)
<1>0. Shape(n) /\ Fields(n) /\ Whole(n) /\ Numbered(n) /\ Gate(n) /\ DOMAIN n.conns[c] = ConnFields
  BY DEF NetInv, Shape
<1>1. NetBut(n, m, {"conns", "job"}) /\ JobBut(n, m, {"stage"})
  BY <1>0 DEF Connected, Fields, NetBut, JobBut, NetFields, JobFields
<1>2. /\ DOMAIN m.conns = DOMAIN n.conns
      /\ \A d \in DOMAIN m.conns : d # c => m.conns[d] = n.conns[d]
  BY <1>0 DEF Connected, Fields, NetFields
<1>3. /\ DOMAIN m.conns[c] = ConnFields /\ m.conns[c].sent = n.conns[c].sent
      /\ m.conns[c].hdr = n.conns[c].hdr /\ m.conns[c].resp = n.conns[c].resp
  BY <1>0 DEF Connected, Fields, NetFields, ConnFields
<1> HIDE DEF m
<1>4. /\ DOMAIN m = NetFields /\ m.save = n.save /\ m.ns = n.ns /\ m.next = n.next
  BY <1>1 DEF NetBut, NetFields
<1>5. /\ DOMAIN m.job = JobFields
      /\ m.job.id = n.job.id /\ m.job.kind = n.job.kind /\ m.job.orphans = n.job.orphans
      /\ m.job.pending = n.job.pending /\ m.job.resolve = n.job.resolve /\ m.job.pcb = n.job.pcb
      /\ m.job.owner = n.job.owner /\ m.job.active = n.job.active
      /\ m.job.done = n.job.done /\ m.job.success = n.job.success /\ m.job.save = n.job.save
      /\ m.job.header_done = n.job.header_done /\ m.job.body = n.job.body /\ m.job.sent = n.job.sent
  BY <1>1 DEF JobBut, JobFields
<1>6. \A d \in DOMAIN n.conns : /\ DOMAIN m.conns[d] = ConnFields
                                /\ m.conns[d].sent = n.conns[d].sent
                                /\ m.conns[d].hdr = n.conns[d].hdr
                                /\ m.conns[d].resp = n.conns[d].resp
  BY <1>0, <1>2, <1>3 DEF Shape
<1>7. Shape(m)
  BY <1>0, <1>2, <1>4, <1>5, <1>6 DEF Shape, Fields
<1>8. Numbered(m)
  BY <1>0, <1>2, <1>4, <1>5, <1>6 DEF Numbered, Delivered
<1>9. Gate(m)
  BY <1>0, <1>4, <1>5 DEF Gate
<1>10. Whole(m)
  BY <1>0, <1>2, <1>5, <1>6 DEF Whole, Alone
<1>11. Keeps(n, m)
  BY <1>0, <1>4, <1>5 DEF Keeps, Shape
<1> QED BY <1>7, <1>8, <1>9, <1>10, <1>11 DEF NetInv, m

(* The state of the lookup, and what nothing here reads, may change. *)
Adjusted(n, m) ==
    /\ NetBut(n, m, {"job", "save", "asked"})
    /\ DOMAIN m.save = SaveFields
    /\ JobBut(n, m, {"resolve", "addr", "pending", "late", "save"})
    /\ m.job.pending => n.job.pending
    /\ m.job.resolve \in {"no", "wanted", "asked"}
    /\ n.job.resolve = "no" => m.job.resolve = "no"

LEMMA AdjustedInv ==
    ASSUME NEW n, NetInv(n), NEW m, Adjusted(n, m)
    PROVE  /\ NetInv(m) /\ (Alone(m) <=> Alone(n)) /\ m.conns = n.conns
           /\ m.save = n.save /\ m.job.save = n.job.save => Keeps(n, m)
<1>0. Shape(n) /\ Numbered(n) /\ Gate(n) /\ Whole(n)
  BY DEF NetInv
<1>1. m.conns = n.conns /\ m.next = n.next /\ NetBut(n, m, {"job", "save", "conns", "asked"})
  BY DEF Adjusted, NetBut, NetFields
<1>2. /\ m.job.id = n.job.id /\ m.job.kind = n.job.kind /\ m.job.orphans = n.job.orphans
      /\ m.job.pcb = n.job.pcb
      /\ m.job.done = n.job.done /\ m.job.success = n.job.success
      /\ m.job.header_done = n.job.header_done /\ m.job.body = n.job.body /\ m.job.sent = n.job.sent
      /\ JobBut(n, m, {"pending", "resolve", "addr", "late", "stage", "pcb", "header_done", "status",
                       "clen", "body", "save", "sent"})
  BY DEF Adjusted, JobBut, JobFields
<1>3. Tweaked(n, m)
  BY <1>0, <1>1, <1>2 DEF Tweaked, Adjusted, Shape
<1>4. Whole(m)
  BY <1>0, <1>1, <1>2 DEF Adjusted, Whole, Alone
<1>5. m.save = n.save /\ m.job.save = n.job.save => Keeps(n, m)
  BY <1>0, <1>1, <1>2 DEF Keeps, Shape
<1> QED BY <1>0, <1>1, <1>2, <1>3, <1>4, <1>5, TweakedKept DEF NetInv, Alone

LEMMA AdjustAndFail ==
    ASSUME NEW n, NetInv(n), NEW x, Adjusted(n, x), x.save = n.save, x.job.save = n.job.save,
           Alone(n) => DOMAIN n.conns = {}
    PROVE  NetInv(FinishFailed(x)) /\ Keeps(n, FinishFailed(x))
<1> DEFINE k == FinishFailed(x)
<1>1. /\ NetInv(x) /\ Keeps(n, x)
      /\ Alone(x) => DOMAIN x.conns = {}
  BY AdjustedInv
<1>2. Failed(x, k)
  BY <1>1, FinishFailedFields DEF NetInv, Shape
<1> HIDE DEF k
<1>3. NetInv(k) /\ Keeps(x, k)
  BY <1>1, <1>2, FailedInv
<1>4. Keeps(n, k)
  BY <1>1, <1>3, KeepsTrans DEF NetInv
<1> QED BY <1>3, <1>4 DEF k

LEMMA DnsFoundInv ==
    ASSUME NEW n, NetInv(n), NEW g, NEW found
    PROVE  NetInv(DnsFound(n, g, found)) /\ Keeps(n, DnsFound(n, g, found))
<1> DEFINE back == [n EXCEPT !.asked = @ \ {g}, !.job.resolve = IF @ = "asked" THEN "wanted" ELSE @]
           yes  == [back EXCEPT !.job.resolve = "no", !.job.addr = g]
           no   == [back EXCEPT !.job.resolve = "no", !.job.pending = FALSE]
<1>0. Shape(n) /\ Fields(n) /\ Whole(n)
  BY DEF NetInv, Shape
<1>1. \/ DnsFound(n, g, found) = back
      \/ DnsFound(n, g, found) = yes
      \/ n.job.pending /\ DnsFound(n, g, found) = FinishFailed(no)
  BY DEF DnsFound
<1>2. Adjusted(n, back) /\ back.save = n.save /\ back.job.save = n.job.save
  BY <1>0 DEF Adjusted, Shape, Fields, NetBut, JobBut, NetFields, JobFields
<1>3. Adjusted(n, yes) /\ yes.save = n.save /\ yes.job.save = n.job.save
  BY <1>0 DEF Adjusted, Shape, Fields, NetBut, JobBut, NetFields, JobFields
<1>4. Adjusted(n, no) /\ no.save = n.save /\ no.job.save = n.job.save
  BY <1>0 DEF Adjusted, Shape, Fields, NetBut, JobBut, NetFields, JobFields
<1> HIDE DEF back, yes, no
<1>5. CASE n.job.pending /\ DnsFound(n, g, found) = FinishFailed(no)
  BY <1>0, <1>4, <1>5, AdjustAndFail DEF Whole
<1> QED BY <1>1, <1>2, <1>3, <1>5, AdjustedInv

LEMMA TimeoutStepInv ==
    ASSUME NEW n, NetInv(n)
    PROVE  NetInv(TimeoutStep(n)) /\ Keeps(n, TimeoutStep(n))
<1> DEFINE x == [n EXCEPT !.job.resolve = "no", !.job.pending = FALSE]
<1>0. Shape(n) /\ Fields(n) /\ Whole(n)
  BY DEF NetInv, Shape
<1>1. Adjusted(n, x) /\ x.save = n.save /\ x.job.save = n.job.save
  BY <1>0 DEF Adjusted, Shape, Fields, NetBut, JobBut, NetFields, JobFields
<1>2. CASE n.job.resolve # "no"
  <2>1. TimeoutStep(n) = FinishFailed(x)
    BY <1>2 DEF TimeoutStep
  <2> HIDE DEF x
  <2>2. Alone(n) => DOMAIN n.conns = {}
    BY <1>0, <1>2 DEF Whole
  <2> QED BY <2>1, <2>2, <1>1, AdjustAndFail
<1>3. CASE n.job.resolve = "no"
  <2>1. TimeoutStep(n) = FinishFailed(ClosePcb(n))
    BY <1>3 DEF TimeoutStep
  <2> QED BY <2>1, CloseAndFail
<1> QED BY <1>2, <1>3

LEMMA FrameOutcomesInv ==
    ASSUME NEW n, NetInv(n), NEW m \in FrameOutcomes(n)
    PROVE  NetInv(m) /\ Keeps(n, m)
<1> DEFINE opened == { c \in DOMAIN n.conns : n.conns[c].open }
           Received(c) == (UNION { Recv(n, c, p[1], p[2], p[3]) : p \in Packets(n.conns[c]) }) \cup Closed(n, c)
           found1 == { DnsFound(n, g, found) : g \in n.asked, found \in BOOLEAN }
           connected == { Connected(n, c) : c \in DOMAIN n.conns \ opened }
           received == UNION { Received(c) : c \in opened }
           gone == { Err(n, c) : c \in DOMAIN n.conns }
<1>1. \/ \E g \in n.asked, found \in BOOLEAN : m = DnsFound(n, g, found)
      \/ \E c \in DOMAIN n.conns : m = Connected(n, c)
      \/ \E c \in opened : m \in Received(c)
      \/ \E c \in DOMAIN n.conns : m = Err(n, c)
  <2>1. FrameOutcomes(n) = ((found1 \cup connected) \cup received) \cup gone
    BY DEF FrameOutcomes
  <2>2. m \in found1 => \E g \in n.asked, found \in BOOLEAN : m = DnsFound(n, g, found)
    OBVIOUS
  <2>3. m \in connected => \E c \in DOMAIN n.conns : m = Connected(n, c)
    OBVIOUS
  <2>4. m \in gone => \E c \in DOMAIN n.conns : m = Err(n, c)
    OBVIOUS
  <2> HIDE DEF Received
  <2>5. m \in received => \E c \in opened : m \in Received(c)
    BY Zenon
  <2> HIDE DEF found1, connected, received, gone
  <2> QED BY <2>1, <2>2, <2>3, <2>4, <2>5
<1>2. CASE \E g \in n.asked, found \in BOOLEAN : m = DnsFound(n, g, found)
  BY <1>2, DnsFoundInv
<1>3. CASE \E c \in DOMAIN n.conns : m = Connected(n, c)
  BY <1>3, ConnectedInv
<1>4. CASE \E c \in opened : m \in Received(c)
  <2>1. PICK c \in DOMAIN n.conns :
           m \in Received(c)
    BY <1>4
  <2>2. CASE m \in Closed(n, c)
    BY <2>2, ClosedInv
  <2>3. CASE m \notin Closed(n, c)
    <3>1. PICK p \in Packets(n.conns[c]) : m \in Recv(n, c, p[1], p[2], p[3])
      <4> DEFINE R(p) == Recv(n, c, p[1], p[2], p[3])
      <4>1. m \in UNION { R(p) : p \in Packets(n.conns[c]) }
        BY <2>1, <2>3, Zenon
      <4> HIDE DEF R
      <4>2. \E p \in Packets(n.conns[c]) : m \in R(p)
        BY <4>1, Zenon
      <4> QED BY <4>2 DEF R
    <3>2. p[1] \in Parts /\ p[2] \in {0, 1} /\ MayCome(n.conns[c], p[1], p[2], p[3])
      BY DEF Packets, Parts
    <3> QED BY <3>1, <3>2, RecvInv
  <2> QED BY <2>2, <2>3
<1>5. CASE \E c \in DOMAIN n.conns : m = Err(n, c)
  BY <1>5, ErrInv
<1> QED BY <1>1, <1>2, <1>3, <1>4, <1>5

-----------------------------------------------------------------------------
(* Storing a body.                                                          *)

LEMMA WholeSeq ==
    ASSUME NEW w \in Seq(Nat), NEW body \in Seq(Nat), Len(w) = Len(body),
           \A i \in 1 .. Len(w) : w[i] = body[i]
    PROVE  w = body /\ SubSeq(w, 1, Len(w)) = body
<1>1. w = body
  BY SeqEqual
<1>2. SubSeq(body, 1, Len(body)) = body
  OBVIOUS
<1> QED BY <1>1, <1>2

SaveButs(s, t, F) == DOMAIN t = SaveFields /\ \A x \in SaveFields \ F : t[x] = s[x]

(* What wget_save_step has done to the record before it looks for more. *)
Blocked(s, j, room) ==
    IF SaveAvailable(s, j) THEN SaveBlock(s, j, room)
    ELSE IF j.body = <<>> THEN [s EXCEPT !.first = TRUE] ELSE s

LEMMA BlockedStoring ==
    ASSUME NEW s, DOMAIN s = SaveFields, NEW j, j.body \in Seq(Nat), NEW f, Storing(s, j.body, f),
           NEW room, ~s.full
    PROVE  LET t == Blocked(s, j, room) IN
           /\ SaveButs(s, t, {"first", "written", "pending", "flushed", "full"})
           /\ t.written \in Seq(Nat) /\ Len(t.written) <= Len(j.body)
           /\ \A i \in 1 .. Len(t.written) : t.written[i] = j.body[i]
           /\ \/ s.phase = 0 /\ j.body = <<>> /\ ~t.pending
              \/ s.phase = 0 /\ t.written # <<>> /\ t.pending /\ t.flushed = Len(t.written) - 1
              \/ /\ s.phase = 2 /\ Len(t.written) = Len(j.body) /\ ~t.pending
                 /\ ~s.disturbed => f = j.body
<1> DEFINE t == Blocked(s, j, room)
           w == s.written
<1>0. w \in Seq(Nat) /\ Len(w) \in Nat /\ Len(j.body) \in Nat
  BY DEF Storing
<1>1. CASE SaveAvailable(s, j)
  <2>1. t = SaveBlock(s, j, room)
    BY <1>1 DEF Blocked
  <2>2. Len(w) < Len(j.body) /\ s.phase = 0
    BY <1>0, <1>1 DEF SaveAvailable, Storing
  <2>3. /\ SaveButs(s, t, {"first", "written", "pending", "flushed", "full"})
        /\ t.pending /\ t.written = Append(w, j.body[Len(w) + 1])
        /\ t.flushed = IF s.pending THEN s.flushed + 1 ELSE s.flushed
    <3>1. Flushed(s) = IF s.pending THEN s.flushed + 1 ELSE s.flushed
      BY DEF Flushed
    <3>2. t = [s EXCEPT !.first = TRUE, !.pending = TRUE, !.full = @ \/ ~room,
                        !.flushed = Flushed(s), !.written = Append(@, j.body[Len(w) + 1])]
      BY <2>1, <2>2 DEF SaveBlock
    <3> HIDE DEF t
    <3>3. SaveButs(s, t, {"first", "written", "pending", "flushed", "full"})
      BY <3>2 DEF SaveButs, SaveFields
    <3>4. t.pending /\ t.written = Append(w, j.body[Len(w) + 1]) /\ t.flushed = Flushed(s)
      BY <3>2 DEF SaveFields
    <3> QED BY <3>1, <3>3, <3>4
  <2> HIDE DEF t
  <2>4. j.body[Len(w) + 1] \in Nat
    BY <1>0, <2>2
  <2>5. /\ t.written \in Seq(Nat) /\ Len(t.written) = Len(w) + 1
        /\ \A i \in 1 .. Len(w) : t.written[i] = w[i]
        /\ t.written[Len(w) + 1] = j.body[Len(w) + 1]
    BY <1>0, <2>3, <2>4
  <2>6. Len(t.written) <= Len(j.body) /\ \A i \in 1 .. Len(t.written) : t.written[i] = j.body[i]
    <3>1. \A i \in 1 .. Len(w) : w[i] = j.body[i]
      BY DEF Storing
    <3>2. \A i \in 1 .. Len(t.written) : i \in 1 .. Len(w) \/ i = Len(w) + 1
      BY <1>0, <2>5
    <3>3. \A i \in 1 .. Len(t.written) : t.written[i] = j.body[i]
      BY <2>5, <3>1, <3>2
    <3>4. Len(t.written) <= Len(j.body)
      BY <1>0, <2>2, <2>5
    <3> QED BY <3>3, <3>4
  <2>7. t.written # <<>>
    BY <1>0, <2>5
  <2>8. t.flushed = Len(t.written) - 1
    <3>1. CASE s.written = <<>> /\ ~s.pending /\ s.flushed = 0
      BY <3>1, <2>3, <2>5
    <3>2. CASE s.pending /\ s.flushed = Len(w) - 1
      BY <3>2, <1>0, <2>3, <2>5
    <3> QED BY <3>1, <3>2, <2>2 DEF Storing
  <2> QED BY <2>2, <2>3, <2>5, <2>6, <2>7, <2>8 DEF t
<1>2. CASE ~SaveAvailable(s, j)
  <2>1. Len(w) = Len(j.body)
    BY <1>2 DEF SaveAvailable
  <2>2. /\ SaveButs(s, t, {"first"})
        /\ t.written = w /\ t.flushed = s.flushed /\ t.pending = s.pending
    BY <1>2 DEF Blocked, SaveButs, SaveFields
  <2> HIDE DEF t
  <2>3. SaveButs(s, t, {"first", "written", "pending", "flushed", "full"})
    BY <2>2 DEF SaveButs
  <2>4. \/ s.phase = 0 /\ j.body = <<>> /\ ~t.pending
        \/ s.phase = 0 /\ t.written # <<>> /\ t.pending /\ t.flushed = Len(t.written) - 1
        \/ /\ s.phase = 2 /\ Len(t.written) = Len(j.body) /\ ~t.pending
           /\ ~s.disturbed => f = j.body
    BY <1>0, <2>1, <2>2 DEF Storing
  <2> QED BY <1>0, <2>2, <2>3, <2>4 DEF Storing, t
<1> QED BY <1>1, <1>2

Entered(r, f) == IF r.entry /\ ~r.save.disturbed
                 THEN SubSeq(r.save.written, 1, r.save.flushed) ELSE f

LEMMA SaveStepStoring ==
    ASSUME NEW s, NEW j, NEW f, NEW room, DOMAIN s = SaveFields, j.body \in Seq(Nat),
           Storing(s, j.body, f), s.active, ~s.full
    PROVE  LET r == SaveStep(s, j, room) IN
           /\ DOMAIN r.save = SaveFields
           /\ r.save.failed = s.failed /\ r.save.clash = s.clash
           /\ r.save.active /\ ~r.save.full => Storing(r.save, j.body, Entered(r, f))
           /\ r.over => j.body = <<>> \/ (~s.disturbed => Entered(r, f) = j.body)
<1> DEFINE t == Blocked(s, j, room)
           t2 == IF t.pending /\ t.phase = 0
                 THEN [t EXCEPT !.pending = FALSE, !.flushed = Flushed(t), !.phase = 1] ELSE t
           r == SaveStep(s, j, room)
<1>1. /\ SaveButs(s, t, {"first", "written", "pending", "flushed", "full"})
      /\ t.written \in Seq(Nat) /\ Len(t.written) <= Len(j.body)
      /\ \A i \in 1 .. Len(t.written) : t.written[i] = j.body[i]
      /\ \/ s.phase = 0 /\ j.body = <<>> /\ ~t.pending
         \/ s.phase = 0 /\ t.written # <<>> /\ t.pending /\ t.flushed = Len(t.written) - 1
         \/ /\ s.phase = 2 /\ Len(t.written) = Len(j.body) /\ ~t.pending
            /\ ~s.disturbed => f = j.body
  BY BlockedStoring
<1>2. r = IF SaveAvailable(t, j) THEN [save |-> t, over |-> FALSE, entry |-> FALSE]
          ELSE IF t2.phase = 1
          THEN [save |-> [t2 EXCEPT !.phase = 2], over |-> FALSE, entry |-> TRUE]
          ELSE [save |-> [t2 EXCEPT !.active = FALSE], over |-> TRUE, entry |-> FALSE]
  BY DEF SaveStep, Blocked
<1> HIDE DEF t
<1>3. /\ DOMAIN t = SaveFields /\ t.phase = s.phase /\ t.failed = s.failed /\ t.clash = s.clash
      /\ t.active = s.active /\ t.disturbed = s.disturbed
  BY <1>1 DEF SaveButs, SaveFields
<1>4. Len(t.written) \in Nat /\ Len(j.body) \in Nat
  BY <1>1
<1>5. CASE SaveAvailable(t, j)
  <2>1. r = [save |-> t, over |-> FALSE, entry |-> FALSE]
    BY <1>2, <1>5
  <2>2. r.save = t /\ ~r.over /\ ~r.entry
    BY <2>1
  <2> HIDE DEF r
  <2>3. Len(t.written) # Len(j.body)
    BY <1>5 DEF SaveAvailable
  <2>4. j.body # <<>>
    BY <1>1, <1>4, <2>3
  <2>5. t.phase = 0 /\ t.written # <<>> /\ t.pending /\ t.flushed = Len(t.written) - 1
    BY <1>1, <1>3, <2>3, <2>4
  <2>6. Storing(t, j.body, f)
    BY <1>1, <2>5 DEF Storing
  <2> QED BY <1>3, <2>2, <2>6 DEF Entered, r
<1>6. CASE ~SaveAvailable(t, j) /\ t.pending
  <2>1. t.phase = 0 /\ t.flushed = Len(t.written) - 1 /\ Len(t.written) = Len(j.body)
    BY <1>1, <1>3, <1>6 DEF SaveAvailable
  <2>2. /\ SaveButs(t, t2, {"pending", "flushed", "phase"})
        /\ ~t2.pending /\ t2.phase = 1 /\ (~t.full => t2.flushed = t.flushed + 1)
    BY <1>3, <1>6, <2>1 DEF Flushed, SaveButs, SaveFields
  <2>3. r = [save |-> [t2 EXCEPT !.phase = 2], over |-> FALSE, entry |-> TRUE]
    BY <1>2, <1>6, <2>2
  <2> HIDE DEF t2
  <2>4. /\ r.save = [t2 EXCEPT !.phase = 2] /\ ~r.over /\ r.entry
    BY <2>3
  <2> HIDE DEF r
  <2>5. /\ SaveButs(t, r.save, {"pending", "flushed", "phase"})
        /\ ~r.save.pending /\ r.save.phase = 2
        /\ ~t.full => r.save.flushed = Len(t.written)
    BY <1>4, <2>1, <2>2, <2>4 DEF SaveButs, SaveFields
  <2>6. /\ DOMAIN r.save = SaveFields /\ r.save.written = t.written /\ r.save.failed = t.failed
        /\ r.save.clash = t.clash /\ r.save.disturbed = t.disturbed /\ r.save.full = t.full
    BY <2>5 DEF SaveButs, SaveFields
  <2>7. SubSeq(t.written, 1, Len(t.written)) = j.body
    BY <1>1, <2>1, WholeSeq
  <2>8. ~t.full /\ ~r.save.disturbed => Entered(r, f) = j.body
    BY <2>4, <2>5, <2>6, <2>7 DEF Entered
  <2>9. ~t.full => Storing(r.save, j.body, Entered(r, f))
    BY <1>1, <2>1, <2>5, <2>6, <2>8 DEF Storing
  <2> QED BY <1>3, <2>4, <2>6, <2>9 DEF r
<1>7. CASE ~SaveAvailable(t, j) /\ ~t.pending
  <2>1. t2 = t /\ t.phase # 1
    BY <1>1, <1>3, <1>7
  <2>2. r = [save |-> [t EXCEPT !.active = FALSE], over |-> TRUE, entry |-> FALSE]
    BY <1>2, <1>7, <2>1
  <2>3. r.save = [t EXCEPT !.active = FALSE] /\ r.over /\ ~r.entry
    BY <2>2
  <2> HIDE DEF r
  <2>4. /\ DOMAIN r.save = SaveFields /\ ~r.save.active /\ r.save.failed = t.failed
        /\ r.save.clash = t.clash
    BY <1>3, <2>3 DEF SaveFields
  <2>5. j.body = <<>> \/ (~s.disturbed => f = j.body)
    BY <1>1, <1>7
  <2> QED BY <1>3, <2>3, <2>4, <2>5 DEF Entered, r
<1> QED BY <1>5, <1>6, <1>7

-----------------------------------------------------------------------------
(* The steps of the system.                                                 *)

Inv == NetInv(Net) /\ Stored(Net, file)

LEMMA StoredKept ==
    ASSUME NEW n, NEW m, NEW f, Stored(n, f), Keeps(n, m)
    PROVE  Stored(m, f)
BY DEF Stored, Keeps

(* The variables hold the fields of an outcome. *)
Shows(n, m) ==
    /\ n.job = m.job /\ n.save = m.save /\ n.conns = m.conns
    /\ n.asked = m.asked /\ n.ns = m.ns /\ n.next = m.next

LEMMA ShownInv ==
    ASSUME NEW n, NEW m, DOMAIN n = NetFields, Shows(n, m), NetInv(m)
    PROVE  NetInv(n)
<1>1. Shape(n)
  BY DEF Shows, NetInv, Shape, Fields
<1>2. Numbered(n)
  BY DEF Shows, NetInv, Numbered
<1>3. Gate(n)
  BY DEF Shows, NetInv, Gate
<1>4. Whole(n)
  BY DEF Shows, NetInv, Whole, Alone
<1> QED BY <1>1, <1>2, <1>3, <1>4 DEF NetInv

LEMMA NetFieldsOf ==
    /\ DOMAIN Net = NetFields /\ Net.job = job /\ Net.save = save /\ Net.conns = conns
    /\ Net.asked = asked /\ Net.ns = ns /\ Net.next = next
    /\ DOMAIN Net' = NetFields /\ Net'.job = job' /\ Net'.save = save' /\ Net'.conns = conns'
    /\ Net'.asked = asked' /\ Net'.ns = ns' /\ Net'.next = next'
BY DEF Net, NetFields

LEMMA BecomeInv ==
    ASSUME NEW S, Become(S), \A m \in S : NetInv(m) /\ Keeps(Net, m)
    PROVE  NetInv(Net') /\ Keeps(Net, Net')
<1>1. PICK m \in S : /\ job' = m.job /\ save' = m.save /\ conns' = m.conns
                     /\ asked' = m.asked /\ ns' = m.ns /\ next' = m.next
  BY DEF Become
<1>2. Shows(Net', m)
  BY <1>1, NetFieldsOf DEF Shows
<1>3. NetInv(m) /\ Keeps(Net, m)
  BY <1>1
<1>4. NetInv(Net')
  BY <1>2, <1>3, ShownInv, NetFieldsOf
<1>5. Keeps(Net, Net')
  BY <1>2, <1>3 DEF Shows, Keeps
<1> QED BY <1>4, <1>5

LEMMA Unmoved ==
    ASSUME Inv, UNCHANGED netVars
    PROVE  NetInv(Net') /\ Keeps(Net, Net')
<1>1. Net' = Net
  BY DEF netVars, Net
<1>2. NetInv(Net) /\ Shape(Net)
  BY DEF Inv, NetInv
<1> QED BY <1>1, <1>2 DEF Keeps, Shape

(* The steps that neither store nor report. *)
OtherStep ==
    \/ Cancel \/ NetworkKick \/ Timeout \/ Receive \/ Timers \/ TimePasses
    \/ \E t \in Terminals : WgetCommand(t) \/ CtrlC(t) \/ CloseWindow(t) \/ OpenWindow(t)
    \/ Ethstat \/ Navigate \/ SubmitOrRefresh \/ Render \/ Act \/ UNCHANGED vars

(* A download is queued and given its owner. *)
LEMMA DownloadQueued ==
    ASSUME NEW n, NetInv(n), ~n.job.active, ~n.job.pending, NEW t \in Terminals, NEW host, NEW saves,
           NEW m \in QueueRequest(n, host, "file", NoOwner, saves),
           NEW k, k = [m EXCEPT !.job.save = TRUE, !.job.owner = t]
    PROVE  NetInv(k) /\ Keeps(n, k)
<1>1. Shape(n) /\ Numbered(n) /\ Gate(n)
  BY DEF NetInv
<1>2. ~n.ns.upset => ~n.ns.waiting
  BY <1>1 DEF Gate
<1>3. Sound(m) /\ Keeps(n, m) /\ m.job.id = n.next /\ Taken(n, m, "file", NoOwner)
  BY <1>1, QueueRequestTaken
<1>4. n.next <= m.job.id /\ Shape(m) /\ Fields(m)
  BY <1>3, <1>1 DEF Shape, Sound
<1>5. NetBut(m, k, {"job"}) /\ JobBut(m, k, {"save", "owner"}) /\ k.job.owner = t
  BY <1>4 DEF Fields, NetBut, JobBut, NetFields, JobFields
<1>6. /\ DOMAIN k = NetFields /\ k.save = m.save /\ k.conns = m.conns /\ k.ns = m.ns
      /\ k.next = m.next
  BY <1>5 DEF NetBut, NetFields
<1>7. /\ DOMAIN k.job = JobFields
      /\ k.job.id = m.job.id /\ k.job.kind = m.job.kind /\ k.job.orphans = m.job.orphans
      /\ k.job.pcb = m.job.pcb /\ k.job.pending = m.job.pending /\ k.job.resolve = m.job.resolve
      /\ k.job.active = m.job.active /\ k.job.done = m.job.done /\ k.job.success = m.job.success
      /\ k.job.header_done = m.job.header_done /\ k.job.body = m.job.body /\ k.job.sent = m.job.sent
  BY <1>5 DEF JobBut, JobFields
<1>8. Shape(k)
  BY <1>4, <1>6, <1>7 DEF Shape, Fields
<1>9. Numbered(k) /\ Whole(k)
  BY <1>3, <1>6, <1>7 DEF Sound, Numbered, Whole, Alone
<1>10. Gate(k)
  <2>1. t # Browser
    BY WgetAssumption
  <2>2. NsBut(n, m, {"upset"}) /\ m.ns.waiting = n.ns.waiting /\ (~m.ns.upset => ~n.ns.upset)
    BY <1>3 DEF Taken, NsBut, NsFields
  <2>3. Tidy(m.ns) /\ (Calm(n.ns) => Calm(m.ns))
    BY <2>2, <1>1, NoNewNumbers DEF Gate
  <2>4. k.job.kind = "file"
    BY <1>3, <1>7 DEF Taken
  <2> QED BY <1>1, <1>2, <1>5, <1>6, <2>1, <2>2, <2>3, <2>4 DEF Gate
<1>11. Keeps(n, k)
  BY <1>3, <1>4, <1>6, <1>7, <1>1 DEF Keeps, Shape
<1> QED BY <1>8, <1>9, <1>10, <1>11 DEF NetInv

LEMMA WgetCommandInv ==
    ASSUME Inv, NEW t \in Terminals, WgetCommand(t)
    PROVE  NetInv(Net') /\ Keeps(Net, Net')
<1>1. CASE UNCHANGED netVars
  BY <1>1, Unmoved
<1>2. CASE ~job.active /\ ~job.pending /\
           \E host \in Hosts :
              Become({ [m EXCEPT !.job.save = TRUE, !.job.owner = t] :
                       m \in QueueRequest(Net, host, "file", NoOwner, TRUE) })
  <2>1. PICK host \in Hosts :
           Become({ [m EXCEPT !.job.save = TRUE, !.job.owner = t] :
                    m \in QueueRequest(Net, host, "file", NoOwner, TRUE) })
    BY <1>2
  <2>2. NetInv(Net) /\ ~Net.job.active /\ ~Net.job.pending
    BY <1>2, NetFieldsOf DEF Inv
  <2>3. ASSUME NEW m \in QueueRequest(Net, host, "file", NoOwner, TRUE),
               NEW k, k = [m EXCEPT !.job.save = TRUE, !.job.owner = t]
        PROVE  NetInv(k) /\ Keeps(Net, k)
    BY <2>2, <2>3, DownloadQueued
  <2> QED BY <2>1, <2>3, BecomeInv
<1> QED BY <1>1, <1>2 DEF WgetCommand

LEMMA OtherStepInv ==
    ASSUME Inv, OtherStep
    PROVE  NetInv(Net') /\ Keeps(Net, Net')
<1>0. NetInv(Net) /\ Shape(Net) /\ Fields(Net) /\ Gate(Net) /\ Sound(Net)
  BY DEF Inv, NetInv, Shape, Sound
<1>1. CASE Cancel
  BY <1>0, <1>1, CloseAndFail, BecomeInv DEF Cancel
<1>2. CASE NetworkKick
  <2>1. ASSUME NEW m \in Kick(Net) PROVE NetInv(m) /\ Keeps(Net, m)
    BY <1>0, <2>1, KickSound, KickGate, KickKeeps DEF NetInv, Sound, Keeps, Shape
  <2> QED BY <1>2, <2>1, BecomeInv DEF NetworkKick
<1>3. CASE Timeout
  BY <1>0, <1>3, TimeoutStepInv, BecomeInv DEF Timeout
<1>4. CASE Receive
  BY <1>0, <1>4, FrameOutcomesInv, BecomeInv DEF Receive
<1>5. CASE Timers
  <2>1. ASSUME NEW m \in { DnsFound(Net, g, FALSE) : g \in asked } \cup { Err(Net, c) : c \in DOMAIN conns }
        PROVE  NetInv(m) /\ Keeps(Net, m)
    BY <1>0, <2>1, DnsFoundInv, ErrInv, NetFieldsOf
  <2> QED BY <1>5, <2>1, BecomeInv DEF Timers
<1>6. CASE TimePasses
  <2>1. NetBut(Net, Net', {"job", "save", "asked"}) /\ Net'.save = Net.save
    BY <1>6, NetFieldsOf DEF TimePasses, NetBut, NetFields
  <2>2. /\ JobBut(Net, Net', {"late"})
    BY <1>0, <1>6, NetFieldsOf DEF TimePasses, JobBut, Fields, JobFields
  <2>3. Adjusted(Net, Net') /\ Net'.job.save = Net.job.save
    BY <1>0, <2>1, <2>2 DEF Adjusted, JobBut, JobFields, Shape, Fields
  <2> QED BY <1>0, <2>1, <2>3, AdjustedInv
<1>7. ASSUME NEW t \in Terminals, WgetCommand(t) PROVE NetInv(Net') /\ Keeps(Net, Net')
  BY <1>7, WgetCommandInv
<1>8. ASSUME NEW t \in Terminals, CtrlC(t) \/ CloseWindow(t) \/ OpenWindow(t)
      PROVE  NetInv(Net') /\ Keeps(Net, Net')
  BY <1>8, Unmoved DEF CtrlC, CloseWindow, OpenWindow
<1>9. CASE Ethstat
  BY <1>0, <1>9, FrameOutcomesInv, BecomeInv DEF Ethstat
<1>10. CASE Navigate \/ SubmitOrRefresh
  <2> DEFINE n == Upset(Net)
  <2>1. NetBut(Net, n, {"ns"}) /\ NsBut(Net, n, {"upset"})
        /\ (n.ns.upset <=> Net.ns.upset \/ Net.job.active \/ Net.job.pending)
    BY <1>0 DEF Upset, Fields, NetBut, NsBut, NetFields, NsFields
  <2>2. Become(DocumentNavigation(n)) \/ Become(Reload(n))
    BY <1>10 DEF Navigate, SubmitOrRefresh
  <2> HIDE DEF n
  <2>3. /\ DOMAIN n = NetFields /\ n.job = Net.job /\ n.save = Net.save /\ n.conns = Net.conns
        /\ n.next = Net.next
    BY <2>1 DEF NetBut, NetFields
  <2>4. /\ DOMAIN n.ns = NsFields /\ n.ns.q = Net.ns.q /\ n.ns.waiting = Net.ns.waiting
    BY <2>1 DEF NsBut, NsFields
  <2>5. /\ Numbers(n.ns) = Numbers(Net.ns) /\ (Busy(Net.ns) => Busy(n.ns))
        /\ Tidy(n.ns) /\ (Calm(Net.ns) => Calm(n.ns))
        /\ Fresh(Net.ns) <=> Fresh(n.ns)
    BY <1>0, <2>1, NoNewNumbers DEF Gate
  <2>6. Shape(n)
    BY <1>0, <2>3, <2>4 DEF Shape, Fields
  <2>7. Numbered(n) /\ Whole(n)
    BY <1>0, <2>3, <2>5 DEF Sound, Numbered, Whole, Alone
  <2>8. Gate(n)
    BY <1>0, <2>1, <2>3, <2>4, <2>5 DEF Gate
  <2>9. ASSUME NEW k \in DocumentNavigation(n) \cup Reload(n) PROVE NetInv(k) /\ Keeps(Net, k)
    <3>1. NetInv(n) /\ (~n.ns.upset => ~n.job.active /\ ~n.job.pending)
      BY <2>1, <2>3, <2>6, <2>7, <2>8 DEF NetInv
    <3>2. NetInv(k) /\ Keeps(n, k)
      BY <2>9, <3>1, DocumentNavigationInv, ReloadInv
    <3> QED BY <3>2, <2>3 DEF Keeps
  <2> QED BY <2>2, <2>9, BecomeInv
<1>11. CASE Act
  <2>1. PICK target \in {0, IF ns.map # 0 THEN ns.map ELSE ns.img} :
           Become(ProcessQueued([Net EXCEPT !.ns = Enqueue(@, target)])) /\ ns.ready
    BY <1>11 DEF Act
  <2> DEFINE n == [Net EXCEPT !.ns = Enqueue(@, target)]
  <2>2. NetBut(Net, n, {"ns"}) /\ n.ns = Enqueue(Net.ns, target)
    BY <1>0 DEF Fields, NetBut, NetFields
  <2>3. NsBut(Net, n, {"q"}) /\ n.ns.q \in {Net.ns.q, Append(Net.ns.q, target)}
    BY <1>0, <2>2 DEF Enqueue, Fields, NsBut, NsFields
  <2> HIDE DEF n
  <2>4. /\ DOMAIN n = NetFields /\ n.job = Net.job /\ n.save = Net.save /\ n.conns = Net.conns
        /\ n.next = Net.next
    BY <2>2 DEF NetBut, NetFields
  <2>5. /\ DOMAIN n.ns = NsFields /\ n.ns.waiting = Net.ns.waiting /\ n.ns.loading = Net.ns.loading
        /\ n.ns.ready = Net.ns.ready /\ n.ns.has = Net.ns.has /\ n.ns.img = Net.ns.img
        /\ n.ns.map = Net.ns.map /\ n.ns.url = Net.ns.url /\ n.ns.reset = Net.ns.reset
        /\ n.ns.used = Net.ns.used /\ n.ns.hasty = Net.ns.hasty /\ n.ns.upset = Net.ns.upset
    BY <2>3 DEF NsBut, NsFields
  <2>6. target \in {0, Net.ns.map, Net.ns.img} /\ (target # 0 /\ Net.ns.map = 0 => target = Net.ns.img)
    BY NetFieldsOf
  <2>7. Net.ns.q \in Seq(Nat) /\ target \in Nat
    BY <1>0, <2>6 DEF Shape, Sound, Numbered, Numbers, Targets
  <2>8. /\ n.ns.q \in Seq(Nat)
        /\ \A i \in 1 .. Len(n.ns.q) : n.ns.q[i] = target \/ \E i1 \in 1 .. Len(Net.ns.q) : n.ns.q[i] = Net.ns.q[i1]
    <3>1. CASE n.ns.q = Net.ns.q
      BY <3>1, <2>7
    <3>2. CASE n.ns.q = Append(Net.ns.q, target)
      <4>1. /\ n.ns.q \in Seq(Nat) /\ Len(n.ns.q) = Len(Net.ns.q) + 1 /\ Len(Net.ns.q) \in Nat
            /\ n.ns.q[Len(Net.ns.q) + 1] = target
            /\ \A i \in 1 .. Len(Net.ns.q) : n.ns.q[i] = Net.ns.q[i]
        BY <3>2, <2>7
      <4>2. \A i \in 1 .. Len(n.ns.q) : i \in 1 .. Len(Net.ns.q) \/ i = Len(Net.ns.q) + 1
        BY <4>1
      <4> QED BY <4>1, <4>2
    <3> QED BY <2>3, <3>1, <3>2
  <2>9. Numbers(n.ns) \subseteq Numbers(Net.ns) \cup {0}
    <3>1. {n.ns.q[i] : i \in 1 .. Len(n.ns.q)} \subseteq {Net.ns.q[i] : i \in 1 .. Len(Net.ns.q)} \cup {target}
      BY <2>8
    <3> QED BY <2>5, <2>6, <3>1 DEF Numbers, Targets
  <2>10. Shape(n)
    BY <1>0, <2>4, <2>5, <2>8 DEF Shape, Fields
  <2>11. Numbered(n) /\ Whole(n)
    BY <1>0, <2>4, <2>9 DEF Sound, Numbered, Whole, Alone, Shape
  <2>12. Gate(n)
    <3>1. Tidy(n.ns) /\ (Busy(Net.ns) => Busy(n.ns))
      BY <1>0, <2>1, <2>5, NetFieldsOf DEF Gate, Tidy, Busy
    <3>2. Calm(Net.ns) => Calm(n.ns) /\ (Fresh(Net.ns) => Fresh(n.ns))
      BY <2>5, <2>6, <2>8 DEF Calm, Unused, Fresh
    <3> QED BY <1>0, <2>4, <2>5, <3>1, <3>2 DEF Gate
  <2>13. ASSUME NEW k \in ProcessQueued(n) PROVE NetInv(k) /\ Keeps(Net, k)
    <3>1. NetInv(k) /\ Keeps(n, k)
      BY <2>10, <2>11, <2>12, <2>13, ProcessQueuedInv DEF NetInv
    <3> QED BY <3>1, <2>4 DEF Keeps
  <2> QED BY <2>1, <2>13, BecomeInv DEF n
<1>12. CASE Render
  BY <1>0, <1>12, ProcessQueuedInv, BecomeInv DEF Render
<1>13. CASE UNCHANGED vars
  BY <1>13, Unmoved DEF vars, netVars
<1> QED BY <1>1, <1>2, <1>3, <1>4, <1>5, <1>6, <1>7, <1>8, <1>9, <1>10, <1>11, <1>12, <1>13 DEF OtherStep

(* The job and the save may change in what no other part reads. *)
LEMMA ReportedInv ==
    ASSUME Inv, NEW saves, DOMAIN save' = SaveFields, job' = [job EXCEPT !.save = saves],
           UNCHANGED <<conns, asked, ns, next>>
    PROVE  NetInv(Net') /\ JobBut(Net, Net', {"save"})
<1>0. NetInv(Net) /\ Shape(Net) /\ DOMAIN job = JobFields
  BY NetFieldsOf DEF Inv, NetInv, Shape, Fields
<1>1. NetBut(Net, Net', {"job", "save", "asked"}) /\ DOMAIN Net'.save = SaveFields
  BY NetFieldsOf DEF NetBut, NetFields
<1>2. JobBut(Net, Net', {"save"})
  BY <1>0, NetFieldsOf DEF JobBut, JobFields
<1>3. /\ JobBut(Net, Net', {"resolve", "addr", "pending", "late", "save"})
      /\ Net'.job.pending = Net.job.pending /\ Net'.job.resolve = Net.job.resolve
  BY <1>2 DEF JobBut, JobFields
<1>4. Adjusted(Net, Net')
  BY <1>0, <1>1, <1>3 DEF Adjusted, Shape
<1> QED BY <1>0, <1>2, <1>4, AdjustedInv

(* Ending a save without failure leaves the body in the file. *)
Saved ==
    /\ job.save /\ ~job'.save /\ job.success /\ ~save'.failed /\ job'.id = job.id
    /\ job.body # <<>> /\ ~save.clash /\ ~save.disturbed /\ ~save.full
    => file' = job.body

LEMMA NoSaveFields ==
    /\ DOMAIN NoSave = SaveFields /\ ~NoSave.active /\ ~NoSave.failed /\ ~NoSave.clash
    /\ NoSave.written = <<>> /\ NoSave.flushed = 0 /\ ~NoSave.pending /\ NoSave.phase = 0
    /\ ~NoSave.disturbed /\ ~NoSave.full
BY DEF NoSave, SaveFields

LEMMA SaveBegun ==
    ASSUME NEW s, DOMAIN s = SaveFields, NEW dir, NEW body, body \in Seq(Nat), NEW f
    PROVE  LET b == SaveBegin(s, dir) IN
           /\ DOMAIN b = SaveFields
           /\ b.failed \/ (b.active /\ ~b.clash /\ ~b.disturbed /\ ~b.full /\ Storing(b, body, f))
<1> DEFINE b == SaveBegin(s, dir)
<1>1. CASE dir = "gone"
  BY <1>1 DEF SaveBegin, SaveFields
<1>2. CASE dir # "gone"
  <2>1. b = [NoSave EXCEPT !.active = TRUE, !.failed = dir \in {"dir", "full"}]
    BY <1>2 DEF SaveBegin
  <2>2. /\ DOMAIN b = SaveFields /\ b.active /\ ~b.clash /\ ~b.disturbed /\ ~b.full
        /\ b.written = <<>> /\ b.flushed = 0 /\ ~b.pending /\ b.phase = 0
    BY <2>1, NoSaveFields DEF SaveFields
  <2> HIDE DEF b
  <2>3. Storing(b, body, f)
    BY <2>2 DEF Storing
  <2> QED BY <2>2, <2>3 DEF b
<1> QED BY <1>1, <1>2

LEMMA SaveRoundInv ==
    ASSUME Inv, SaveRound
    PROVE  Inv' /\ Saved
<1> DEFINE Result(b, room) == IF b.failed \/ ~b.active
                              THEN [save |-> b, over |-> TRUE, entry |-> FALSE]
                              ELSE SaveStep(b, job, room)
<1>0. PICK room \in BOOLEAN, begun \in IF save.active THEN {save} ELSE { SaveBegin(save, dir) : dir \in Directory } :
         LET result == IF begun.failed \/ ~begun.active
                       THEN [save |-> begun, over |-> TRUE, entry |-> FALSE]
                       ELSE SaveStep(begun, job, room)
         IN  /\ save' = IF result.save.active \/ result.save.failed THEN result.save ELSE NoSave
             /\ job' = [job EXCEPT !.save = ~result.over]
             /\ win' = IF result.over /\ Listening THEN Tell(job.owner) ELSE win
             /\ file' = IF result.entry /\ ~result.save.disturbed
                        THEN SubSeq(result.save.written, 1, result.save.flushed) ELSE file
  BY DEF SaveRound
<1>1. /\ begun \in IF save.active THEN {save} ELSE { SaveBegin(save, dir) : dir \in Directory }
      /\ LET result == Result(begun, room)
         IN  /\ save' = IF result.save.active \/ result.save.failed THEN result.save ELSE NoSave
             /\ job' = [job EXCEPT !.save = ~result.over]
             /\ file' = Entered(result, file)
  BY Zenon, <1>0 DEF Entered
<1> DEFINE r == Result(begun, room)
<1>2. /\ job.done /\ job.success
      /\ UNCHANGED <<conns, asked, ns, next>>
  BY DEF SaveRound
<1>3. /\ DOMAIN save = SaveFields /\ DOMAIN job = JobFields /\ job.body \in Seq(Nat)
  BY NetFieldsOf DEF Inv, NetInv, Shape, Fields
<1>4. /\ DOMAIN begun = SaveFields
      /\ \/ begun.failed
         \/ begun.active /\ save.active /\ begun = save
         \/ begun.active /\ ~begun.clash /\ ~begun.disturbed /\ ~begun.full /\ Storing(begun, job.body, file)
  <2>1. CASE save.active
    BY <1>1, <1>3, <2>1
  <2>2. CASE ~save.active
    <3>1. PICK dir \in Directory : begun = SaveBegin(save, dir)
      BY <1>1, <2>2
    <3> QED BY <3>1, <1>3, SaveBegun
  <2> QED BY <2>1, <2>2
<1>5. begun.active /\ ~begun.failed /\ ~begun.clash /\ ~begun.full => Storing(begun, job.body, file)
  BY <1>4, NetFieldsOf DEF Inv, Stored
<1>6. CASE begun.failed
  <2>1. r = [save |-> begun, over |-> TRUE, entry |-> FALSE]
    BY <1>6
  <2>2. save' = begun /\ file' = file
    BY <1>1, <1>6, <2>1 DEF Entered
  <2>3. NetInv(Net')
    BY <1>1, <1>2, <1>4, <2>2, ReportedInv
  <2>4. Stored(Net', file')
    BY <1>6, <2>2, NetFieldsOf DEF Stored
  <2> QED BY <1>6, <2>2, <2>3, <2>4 DEF Inv, Saved
<1>7. CASE ~begun.failed /\ (begun.clash \/ begun.full)
  <2>1. r = SaveStep(begun, job, room) /\ begun = save
    BY <1>4, <1>7
  <2>2. DOMAIN r.save = SaveFields /\ r.save.clash = begun.clash /\ (begun.full => r.save.full)
    BY <1>4, <2>1 DEF SaveStep, SaveBlock, SaveFields
  <2>3. DOMAIN save' = SaveFields /\ (save'.active => save'.clash \/ save'.full)
    BY <1>1, <1>7, <2>2, NoSaveFields
  <2>4. NetInv(Net')
    BY <1>1, <1>2, <2>3, ReportedInv
  <2>5. Stored(Net', file')
    BY <2>3, NetFieldsOf DEF Stored
  <2> QED BY <1>7, <2>1, <2>4, <2>5 DEF Inv, Saved
<1>8. CASE ~begun.failed /\ ~begun.clash /\ ~begun.full
  <2>1. r = SaveStep(begun, job, room) /\ begun.active
    BY <1>4, <1>8
  <2>2. Storing(begun, job.body, file)
    BY <1>5, <1>8, <2>1
  <2>3. /\ DOMAIN r.save = SaveFields
        /\ r.save.failed = begun.failed /\ r.save.clash = begun.clash
        /\ r.save.active /\ ~r.save.full => Storing(r.save, job.body, Entered(r, file))
        /\ r.over => job.body = <<>> \/ (~begun.disturbed => Entered(r, file) = job.body)
    <3> DEFINE x == SaveStep(begun, job, room)
    <3>0. DOMAIN begun = SaveFields /\ job.body \in Seq(Nat) /\ Storing(begun, job.body, file)
          /\ begun.active /\ ~begun.full
      BY <1>3, <1>4, <1>8, <2>1, <2>2
    <3>1. /\ DOMAIN x.save = SaveFields
          /\ x.save.failed = begun.failed /\ x.save.clash = begun.clash
          /\ x.save.active /\ ~x.save.full => Storing(x.save, job.body, Entered(x, file))
          /\ x.over => job.body = <<>> \/ (~begun.disturbed => Entered(x, file) = job.body)
      BY Zenon, <3>0, SaveStepStoring
    <3>2. r = x
      BY <2>1
    <3> HIDE DEF x, r
    <3> QED BY <3>1, <3>2
  <2>4. /\ save' = IF r.save.active \/ r.save.failed THEN r.save ELSE NoSave
        /\ job' = [job EXCEPT !.save = ~r.over]
        /\ file' = Entered(r, file)
    BY <1>1
  <2> HIDE DEF r
  <2>5. DOMAIN save' = SaveFields /\ (save'.active => save' = r.save)
    BY <2>3, <2>4, NoSaveFields
  <2>6. NetInv(Net') /\ JobBut(Net, Net', {"save"})
    BY <1>2, <2>4, <2>5, ReportedInv
  <2>7. job'.done = job.done /\ job'.body = job.body /\ (job'.save <=> ~r.over)
    BY <1>3, <2>4 DEF JobFields
  <2>8. Stored(Net', file')
    BY <1>2, <2>3, <2>4, <2>5, <2>7, NetFieldsOf DEF Stored
  <2>9. begun.disturbed => save.disturbed
    BY <1>4, <1>8
  <2>10. Saved
    BY <2>3, <2>4, <2>7, <2>9 DEF Saved
  <2> QED BY <2>6, <2>8, <2>10 DEF Inv
<1> QED BY <1>6, <1>7, <1>8

LEMMA InitInv == Init => Inv
<1> SUFFICES ASSUME Init PROVE Inv
  OBVIOUS
<1>1. /\ job = EmptyJob /\ save = NoSave /\ conns = <<>> /\ next = 2 /\ DOMAIN conns = {}
  BY DEF Init
<1>2. /\ DOMAIN job = JobFields /\ job.id = 0 /\ ~job.pending /\ ~job.active /\ ~job.done
      /\ job.resolve = "no" /\ job.body = <<>> /\ job.sent = 0
  BY <1>1 DEF EmptyJob, JobFields
<1>3. /\ DOMAIN ns = NsFields /\ ns.q = <<>> /\ ns.used = {} /\ ns.url = 0 /\ ~ns.waiting
      /\ ~ns.hasty /\ ~ns.reset /\ ns.img \in {0, 1} /\ ns.map \in {0, 1}
      /\ ns.map # 0 => ns.has
  <2>1. CASE ns = EmptyNs
    BY <2>1 DEF EmptyNs, NsFields
  <2>2. CASE ns = PageShown
    BY <2>2 DEF EmptyNs, PageShown, NsFields
  <2> QED BY <2>1, <2>2 DEF Init
<1>4. Shape(Net)
  <2>1. Fields(Net)
    BY <1>1, <1>2, <1>3, NetFieldsOf, NoSaveFields DEF Fields
  <2>2. job.body \in Seq(Nat) /\ ns.q \in Seq(Nat) /\ next \in Nat \ {0} /\ job.id < next
    BY <1>1, <1>2, <1>3
  <2>3. job.id \in Nat /\ job.sent \in Nat /\ job.resolve \in {"no", "wanted", "asked"}
    BY <1>2
  <2>4. DOMAIN conns = {}
    BY <1>1
  <2>5. Net.job = job /\ Net.ns = ns /\ Net.conns = conns /\ Net.next = next
    BY NetFieldsOf
  <2> QED BY <2>1, <2>2, <2>3, <2>4, <2>5 DEF Shape
<1>5. Numbered(Net)
  <2>1. Numbers(ns) \subseteq {0, 1}
    BY <1>3 DEF Numbers, Targets
  <2> QED BY <2>1, <1>1, <1>2, NetFieldsOf DEF Numbered
<1>6. Gate(Net)
  <2>1. job.kind = "file"
    BY <1>1 DEF EmptyJob
  <2> QED BY <2>1, <1>2, <1>3, NetFieldsOf DEF Gate, Tidy, Calm, Unused, Fresh
<1>7. Whole(Net)
  BY <1>1, <1>2, NetFieldsOf DEF Whole
<1>8. Stored(Net, file)
  BY <1>1, NetFieldsOf, NoSaveFields DEF Stored
<1> QED BY <1>4, <1>5, <1>6, <1>7, <1>8 DEF Inv, NetInv

LEMMA NextInv == Inv /\ [Next]_vars => Inv' /\ Saved
<1> SUFFICES ASSUME Inv, [Next]_vars PROVE Inv' /\ Saved
  OBVIOUS
<1>1. CASE OtherStep
  <2>1. NetInv(Net') /\ Keeps(Net, Net')
    BY <1>1, OtherStepInv
  <2>2. file' = file
    BY <1>1 DEF OtherStep, Cancel, NetworkKick, Timeout, Receive, Timers, TimePasses, WgetCommand,
                CtrlC, CloseWindow, OpenWindow, Ethstat, Navigate, SubmitOrRefresh, Render, Act, vars
  <2>3. Stored(Net', file')
    BY <2>1, <2>2, StoredKept DEF Inv
  <2>4. ~(job.save /\ ~job'.save /\ job'.id = job.id)
    <3>1. job.id \in Nat /\ next \in Nat /\ job.id < next
      BY NetFieldsOf DEF Inv, NetInv, Shape
    <3>2. (job'.id = job.id /\ job'.save = job.save) \/ next <= job'.id
      BY <2>1, NetFieldsOf DEF Keeps
    <3> QED BY <3>1, <3>2
  <2> QED BY <2>1, <2>3, <2>4 DEF Inv, Saved
<1>2. CASE SaveRound
  BY <1>2, SaveRoundInv
<1>3. CASE Report
  <2>1. NetInv(Net') /\ JobBut(Net, Net', {"save"})
    <3>1. DOMAIN save' = SaveFields
      BY <1>3, NetFieldsOf DEF Report, Inv, NetInv, Shape, Fields
    <3> QED BY <1>3, <3>1, ReportedInv DEF Report
  <2>2. save' = save /\ file' = file /\ job'.done = job.done /\ job'.body = job.body
    BY <1>3, <2>1, NetFieldsOf DEF Report, JobBut, JobFields
  <2>3. Stored(Net', file')
    BY <2>2, NetFieldsOf DEF Inv, Stored
  <2> QED BY <1>3, <2>1, <2>3 DEF Inv, Saved, Report
<1>4. CASE ResolvePath
  <2>1. DOMAIN save = SaveFields /\ DOMAIN job = JobFields /\ NetInv(Net) /\ Shape(Net)
    BY NetFieldsOf DEF Inv, NetInv, Shape, Fields
  <2>2. /\ SaveButs(save, save', {"disturbed"}) /\ save'.disturbed
        /\ job' = job /\ UNCHANGED <<conns, asked, ns, next>> /\ file' = file
    BY <1>4, <2>1 DEF ResolvePath, SaveButs, SaveFields
  <2>3. Adjusted(Net, Net')
    BY <2>1, <2>2, NetFieldsOf DEF Adjusted, NetBut, JobBut, NetFields, SaveButs, Shape, Fields
  <2>4. NetInv(Net')
    BY <2>1, <2>3, AdjustedInv
  <2>5. /\ save'.active = save.active /\ save'.failed = save.failed /\ save'.clash = save.clash
        /\ save'.written = save.written /\ save'.phase = save.phase /\ save'.pending = save.pending
        /\ save'.flushed = save.flushed /\ save'.full = save.full
    BY <2>2 DEF SaveButs, SaveFields
  <2>6. Stored(Net', file')
    BY <2>2, <2>5, NetFieldsOf DEF Inv, Stored, Storing
  <2> QED BY <2>2, <2>4, <2>6 DEF Inv, Saved
<1> QED BY <1>1, <1>2, <1>3, <1>4 DEF Next, NetworkTask, OwnRound, OtherStep

LEMMA FetchInvariant == Spec => []Inv
BY InitInv, NextInv, PTL DEF Spec

-----------------------------------------------------------------------------

(* A body that wget_recv_cb received with no other connection in the way is, *)
(* unit for unit, what the server sent, however the packets were cut and     *)
(* whichever callback ended it.                                              *)
THEOREM BodiesAreWhole == Spec => []BodyWhole
<1>1. Inv => BodyWhole
  BY NetFieldsOf DEF Inv, NetInv, Whole, Alone, BodyWhole, Units
<1> QED BY <1>1, FetchInvariant, PTL

(* ns_process_queued_actions sends an action only when no page or image of   *)
(* the browser is under way, and never two to the same map, unless a page    *)
(* was overtaken, did not arrive or brought no map while actions waited.     *)
THEOREM ActionsWaitForTheirPage == Spec => []ActionsGated
<1>1. Inv => ActionsGated
  BY NetFieldsOf DEF Inv, NetInv, Gate, Calm, ActionsGated
<1> QED BY <1>1, FetchInvariant, PTL

(* When wget_save_step ends without failure ("Downloaded."), the file is the *)
(* body, unless another download or another task's path came in between or   *)
(* the disk had no room.                                                     *)
THEOREM DownloadsAreSaved == Spec => DownloadedMeansSaved
<1>1. Inv /\ [Next]_vars => Saved
  BY NextInv
<1>2. Spec => [][Saved]_vars
  BY <1>1, FetchInvariant, PTL DEF Spec
<1> QED BY <1>2 DEF DownloadedMeansSaved, Saved
=============================================================================
