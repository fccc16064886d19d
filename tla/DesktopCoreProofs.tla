-------------------------- MODULE DesktopCoreProofs --------------------------
(***************************************************************************)
(* What DesktopCore promises, for any requests, queue lengths and number   *)
(* of restarts: the supervisor's picture of its child is right, a request  *)
(* is handled at most once, keys that were reported are watched, and a     *)
(* lock that was handled leaves no keys.                                   *)
(***************************************************************************)
EXTENDS DesktopCore, FiniteSetTheorems, SequenceTheorems, TLAPS

\* What the three kinds of queues hold.
Reports == {"ready", "other version"}
Kinds == Reports \union {"start", "timer", "exited", "lock", "shutdown"}
Msg == {Message(k, g) : k \in Kinds, g \in Nat}
Incoming == {Frame("request", id) : id \in Request}
              \union {Frame("cancel", id) : id \in Request}
              \union {Frame("shutdown", 0)}
Answers == {Frame(k, id) : k \in {"error", "session", "response"}, id \in Request}
Outgoing == {Frame(k, 0) : k \in Reports} \union Answers

\* A sequence holds x; it holds x once at most; no y comes after an x.
In(s, x) == \E i \in DOMAIN s : s[i] = x
Once(s, x) == \A i, j \in DOMAIN s : s[i] = x /\ s[j] = x => i = j
NotAfter(s, x, y) == \A i, j \in DOMAIN s : s[i] = x /\ s[j] = y => j <= i

-----------------------------------------------------------------------------
(***************************************************************************)
(* The supervisor and its child.                                           *)
(***************************************************************************)
SupModel == [generation : Nat, child : BOOLEAN, writer : BOOLEAN, ready : BOOLEAN,
             incompatible : BOOLEAN, shutting : BOOLEAN, crashes : Nat,
             state : {"starting", "ready", "restarting", "failed", "stopped"},
             grace : BOOLEAN, panicked : BOOLEAN, own : BOOLEAN]
CoreStates == {"none", "starting", "serving", "draining", "dead"}

\* A message from the reader of the present generation is in the queue.
Reported(k) == In(control, Message(k, sup.generation))

SupTyped == /\ sup \in SupModel /\ control \in Seq(Msg) /\ out \in Seq(Outgoing)
            /\ core \in CoreStates /\ reading \in BOOLEAN
            /\ running \in {0, sup.generation}

\* Who is there, and who is not any more.
ChildFits ==
  /\ sup.writer => sup.child /\ ~sup.shutting
  /\ sup.grace => ~sup.writer /\ sup.shutting
  /\ Alive => sup.child
  /\ RunningIsReady

\* Nothing is left of a child that was reaped: its reader ended, and whatever
\* it reported was handled.
ReapedFits ==
  ~sup.child /\ ~sup.shutting =>
    /\ ~sup.incompatible /\ ~reading /\ out = <<>>
    /\ \A k \in Reports : ~Reported(k)

\* A child reports once that it is ready or of another version, after it
\* started and before its end, and only one of this version that it is ready.
ReportsFit ==
  /\ \A k, g : In(control, Message(k, g)) => g <= sup.generation
  /\ Reported("exited") => ~reading /\ ~Alive /\ out = <<>>
  /\ \A k \in Reports :
       /\ NotAfter(control, Message("exited", sup.generation), Message(k, sup.generation))
       /\ Once(control, Message(k, sup.generation))
       /\ Once(out, Frame(k, 0))
       /\ Reported(k) \/ In(out, Frame(k, 0)) =>
            ~sup.ready /\ ~sup.incompatible /\ core # "starting"
  /\ \A k, l \in Reports :
       /\ Reported(k) => ~In(out, Frame(l, 0))
       /\ Reported(k) /\ Reported(l) => k = l
       /\ In(out, Frame(k, 0)) /\ In(out, Frame(l, 0)) => k = l
  /\ core = "starting" => ~sup.ready /\ ~sup.incompatible
  /\ Reported("ready") \/ In(out, Frame("ready", 0)) => sup.own

SupPart == SupTyped /\ ChildFits /\ ReapedFits /\ ReportsFit

-----------------------------------------------------------------------------
(***************************************************************************)
(* The requests, where their frames are, and the core's tasks.             *)
(***************************************************************************)
RequestModel == [state : {"idle", "registered", "sent", "expired", "answered",
                          "done", "over"},
                 generation : Nat, epoch : Nat, session : BOOLEAN]

\* A request that was put to the present generation was put to a ready core.
ReqPart ==
  /\ req \in [Request -> RequestModel]
  /\ waiting \subseteq Request /\ IsFiniteSet(waiting)
  /\ Cardinality(waiting) <= MaxWaiting
  /\ \A id \in waiting : req[id].state \in {"registered", "sent", "expired"}
  /\ \A id \in Request : req[id].state \notin {"idle", "over"} =>
       /\ req[id].generation <= sup.generation
       /\ req[id].generation = sup.generation => sup.ready

Posted(id) == hold = Frame("request", id) \/ In(pipe, Frame("request", id))
                \/ id \in DOMAIN taken
InCore(id) == Queued(id) \/ Posted(id) \/ keys = id

\* A request is queued once, and then it is neither at the core nor on its way
\* there; what a live core has or gets was sent to its generation.
FramesPart ==
  /\ frames \in Seq(Incoming) /\ Len(frames) <= MaxQueued
  /\ hold \in Incoming \union {NoFrame}
  /\ pipe \in Seq(Incoming)
  /\ \A id \in Request :
       /\ Once(frames, Frame("request", id))
       /\ Queued(id) => ~Posted(id)
       /\ req[id].state \in {"idle", "registered"} => ~Queued(id) /\ ~Posted(id)
       /\ Alive /\ InCore(id) =>
            /\ sup.ready
            /\ req[id].state = "over" \/ req[id].generation = sup.generation
  /\ \A id \in unsent : id \in Request /\ req[id].state = "over" /\ ~Posted(id)

TaskPart ==
  /\ DOMAIN taken \subseteq Request /\ DOMAIN task \subseteq DOMAIN taken
  /\ IsFiniteSet(DOMAIN task) /\ Cardinality(DOMAIN task) <= MaxInFlight
  /\ \A id \in DOMAIN taken : taken[id] = IF id \in DOMAIN task THEN 0 ELSE 1
  /\ keys \in Request \union {0}
  /\ keys # 0 => req[keys].state \notin {"idle", "registered"}
  /\ ~Alive => pipe = <<>> /\ task = Empty /\ taken = Empty /\ keys = 0

\* A lock, or the end, is on its way to the supervisor.
LockComing == \/ policy.locking \/ sup.grace
              \/ In(control, Message("lock", 0)) \/ In(control, Message("shutdown", 0))

\* An answer of this epoch has set a deadline, an epoch does not outlive its
\* core, and a request of an earlier one that may still reach the core will meet
\* the lock first.
PolicyPart ==
  /\ policy \in [epoch : Nat, deadline : Request \union {0}, locking : BOOLEAN]
  /\ policy.deadline # 0 => /\ req[policy.deadline].state = "done"
                            /\ req[policy.deadline].epoch = policy.epoch
  /\ \A id \in Request :
       /\ req[id].epoch <= policy.epoch
       /\ req[id].state = "done" /\ req[id].session /\ req[id].epoch = policy.epoch =>
            policy.deadline # 0
       /\ req[id].state \notin {"idle", "over"} /\ req[id].epoch = policy.epoch =>
            req[id].generation = sup.generation
       /\ /\ Alive /\ req[id].state \notin {"idle", "over"}
          /\ req[id].generation = sup.generation /\ req[id].epoch # policy.epoch
          => LockComing

IInv == SupPart /\ ReqPart /\ FramesPart /\ TaskPart /\ PolicyPart

-----------------------------------------------------------------------------
(***************************************************************************)
(* Queues.                                                                 *)
(***************************************************************************)
\* The head goes.
LEMMA TailFacts ==
  ASSUME NEW S, NEW s \in Seq(S), s # <<>>
  PROVE  /\ Tail(s) \in Seq(S) /\ Head(s) \in S
         /\ Len(Tail(s)) <= Len(s) /\ Len(s) \in Nat /\ Len(Tail(s)) \in Nat
         /\ \A x : In(s, x) <=> (x = Head(s) \/ In(Tail(s), x))
         /\ \A x : Once(s, x) => /\ Once(Tail(s), x)
                                 /\ x = Head(s) => ~In(Tail(s), x)
         /\ \A x, y : NotAfter(s, x, y) =>
              /\ NotAfter(Tail(s), x, y)
              /\ x = Head(s) => ~In(Tail(s), y)
<1>1. /\ Len(s) \in Nat /\ Len(s) > 0 /\ DOMAIN s = 1..Len(s)
      /\ Tail(s) \in Seq(S) /\ Len(Tail(s)) = Len(s) - 1
      /\ DOMAIN Tail(s) = 1..(Len(s) - 1)
      /\ \A i \in 1..(Len(s) - 1) : Tail(s)[i] = s[i + 1]
      /\ Head(s) = s[1] /\ Head(s) \in S
  OBVIOUS
<1> DEFINE n == Len(s)
           t == Tail(s)
<1> HIDE DEF n, t
<1>2. /\ n \in Nat /\ n > 0 /\ DOMAIN s = 1..n /\ DOMAIN t = 1..(n - 1)
      /\ \A i \in 1..(n - 1) : t[i] = s[i + 1]
      /\ Head(s) = s[1]
  BY <1>1 DEF n, t
<1>3. ASSUME NEW x PROVE In(s, x) <=> (x = Head(s) \/ In(t, x))
  <2>1. ASSUME NEW i \in DOMAIN s, s[i] = x, i # 1 PROVE In(t, x)
    <3>1. i - 1 \in 1..(n - 1) /\ s[(i - 1) + 1] = x
      BY <1>2, <2>1
    <3>2. QED
      BY <1>2, <3>1 DEF In
  <2>2. ASSUME NEW i \in DOMAIN t, t[i] = x PROVE In(s, x)
    <3>1. i + 1 \in 1..n /\ s[i + 1] = x
      BY <1>2, <2>2
    <3>2. QED
      BY <1>2, <3>1 DEF In
  <2>3. 1 \in DOMAIN s
    BY <1>2
  <2>4. QED
    BY <1>2, <2>1, <2>2, <2>3 DEF In
<1>4. ASSUME NEW x, Once(s, x) PROVE Once(t, x) /\ (x = Head(s) => ~In(t, x))
  <2>1. ASSUME NEW i \in DOMAIN t, NEW j \in DOMAIN t, t[i] = x, t[j] = x PROVE i = j
    <3>1. i + 1 \in DOMAIN s /\ j + 1 \in DOMAIN s /\ s[i + 1] = x /\ s[j + 1] = x
      BY <1>2, <2>1
    <3>2. i + 1 = j + 1
      BY <1>4, <3>1 DEF Once
    <3>3. QED
      BY <1>2, <3>2
  <2>2. ASSUME NEW i \in DOMAIN t, t[i] = x, x = Head(s) PROVE FALSE
    <3>1. i + 1 \in DOMAIN s /\ s[i + 1] = x /\ 1 \in DOMAIN s /\ s[1] = x /\ i + 1 # 1
      BY <1>2, <2>2
    <3>2. QED
      BY <1>4, <3>1 DEF Once
  <2>3. QED
    BY <2>1, <2>2 DEF Once, In
<1>5. ASSUME NEW x, NEW y, NotAfter(s, x, y)
      PROVE  NotAfter(t, x, y) /\ (x = Head(s) => ~In(t, y))
  <2>1. ASSUME NEW i \in DOMAIN t, NEW j \in DOMAIN t, t[i] = x, t[j] = y PROVE j <= i
    <3>1. i + 1 \in DOMAIN s /\ j + 1 \in DOMAIN s /\ s[i + 1] = x /\ s[j + 1] = y
      BY <1>2, <2>1
    <3>2. j + 1 <= i + 1
      BY <1>5, <3>1 DEF NotAfter
    <3>3. QED
      BY <1>2, <3>2
  <2>2. ASSUME NEW i \in DOMAIN t, t[i] = y, x = Head(s) PROVE FALSE
    <3>1. i + 1 \in DOMAIN s /\ s[i + 1] = y /\ 1 \in DOMAIN s /\ s[1] = x
          /\ ~(i + 1 <= 1)
      BY <1>2, <2>2
    <3>2. QED
      BY <1>5, <3>1 DEF NotAfter
  <2>3. QED
    BY <2>1, <2>2 DEF NotAfter, In
<1>6. QED
  BY <1>1, <1>3, <1>4, <1>5 DEF t

\* An element is put at the end.
LEMMA AppendFacts ==
  ASSUME NEW S, NEW s \in Seq(S), NEW z \in S
  PROVE  /\ Append(s, z) \in Seq(S) /\ Append(s, z) # <<>>
         /\ Len(Append(s, z)) = Len(s) + 1 /\ Len(s) \in Nat
         /\ \A x : In(Append(s, z), x) <=> (x = z \/ In(s, x))
         /\ \A x : Once(s, x) /\ (x = z => ~In(s, x)) => Once(Append(s, z), x)
         /\ \A x, y : NotAfter(s, x, y) /\ (y = z => ~In(s, x)) =>
              NotAfter(Append(s, z), x, y)
<1>1. /\ Len(s) \in Nat /\ DOMAIN s = 1..Len(s)
      /\ Append(s, z) \in Seq(S) /\ Len(Append(s, z)) = Len(s) + 1
      /\ DOMAIN Append(s, z) = 1..(Len(s) + 1)
      /\ \A i \in 1..Len(s) : Append(s, z)[i] = s[i]
      /\ Append(s, z)[Len(s) + 1] = z
  OBVIOUS
<1>a. Append(s, z) # <<>>
  BY <1>1
<1> DEFINE n == Len(s)
           t == Append(s, z)
<1> HIDE DEF n, t
<1>2. /\ n \in Nat /\ DOMAIN s = 1..n /\ DOMAIN t = 1..(n + 1)
      /\ \A i \in 1..n : t[i] = s[i]
      /\ t[n + 1] = z
  BY <1>1 DEF n, t
<1>3. \A i \in DOMAIN t : \/ i = n + 1 /\ t[i] = z /\ i \notin DOMAIN s
                          \/ i \in DOMAIN s /\ t[i] = s[i] /\ i # n + 1
  <2>1. \A i \in DOMAIN t : i = n + 1 \/ i \in 1..n
    BY <1>2
  <2>2. n + 1 \notin 1..n
    BY <1>2
  <2>3. QED
    BY <1>2, <2>1, <2>2
<1>4. DOMAIN s \subseteq DOMAIN t /\ n + 1 \in DOMAIN t
      /\ \A i \in DOMAIN s : t[i] = s[i] /\ i <= n /\ i \in Nat
  BY <1>2
<1>5. ASSUME NEW x PROVE In(t, x) <=> (x = z \/ In(s, x))
  BY <1>2, <1>3, <1>4 DEF In
<1>6. ASSUME NEW x, Once(s, x), x = z => ~In(s, x) PROVE Once(t, x)
  <2>1. SUFFICES ASSUME NEW i \in DOMAIN t, NEW j \in DOMAIN t, t[i] = x, t[j] = x
                 PROVE  i = j
    BY DEF Once
  <2>2. QED
    BY <1>3, <1>6, <2>1 DEF Once, In
<1>7. ASSUME NEW x, NEW y, NotAfter(s, x, y), y = z => ~In(s, x)
      PROVE  NotAfter(t, x, y)
  <2>1. SUFFICES ASSUME NEW i \in DOMAIN t, NEW j \in DOMAIN t, t[i] = x, t[j] = y
                 PROVE  j <= i
    BY DEF NotAfter
  <2>2. CASE i = n + 1
    BY <1>2, <2>2
  <2>3. CASE i # n + 1
    <3>1. i \in DOMAIN s /\ s[i] = x
      BY <1>3, <2>1, <2>3
    <3>2. y # z
      BY <1>7, <3>1 DEF In
    <3>3. j \in DOMAIN s /\ s[j] = y
      BY <1>3, <2>1, <3>2
    <3>4. QED
      BY <1>7, <3>1, <3>3 DEF NotAfter
  <2>4. QED
    BY <2>2, <2>3
<1>8. QED
  BY <1>1, <1>a, <1>5, <1>6, <1>7 DEF t

LEMMA EmptyFacts ==
  ASSUME NEW S
  PROVE  /\ <<>> \in Seq(S) /\ Len(<<>>) = 0
         /\ \A x : ~In(<<>>, x) /\ Once(<<>>, x)
         /\ \A x, y : NotAfter(<<>>, x, y)
BY DEF In, Once, NotAfter

\* Messages and frames are told apart by their columns.
LEMMA Columns ==
  /\ \A k, g : Message(k, g).kind = k /\ Message(k, g).generation = g
  /\ \A k, i : Frame(k, i).kind = k /\ Frame(k, i).id = i
  /\ NoFrame.kind = "none"
BY DEF Message, Frame, NoFrame

LEMMA Messages ==
  ASSUME NEW g \in Nat
  PROVE  /\ \A k \in Kinds : Message(k, g) \in Msg
         /\ Message("start", 0) \in Msg /\ Message("exited", g) \in Msg
<1>1. 0 \in Nat /\ "start" \in Kinds /\ "exited" \in Kinds
  BY DEF Kinds
<1>2. \A k \in Kinds, h \in Nat : Message(k, h) \in Msg
  BY DEF Msg
<1>3. QED
  BY <1>1, <1>2

LEMMA Contents ==
  /\ \A f \in Incoming : /\ f.kind \in {"request", "cancel", "shutdown"}
                         /\ f.kind = "request" => f.id \in Request
                         /\ f = Frame(f.kind, f.id)
  /\ \A f \in Answers : /\ f.kind \in {"error", "session", "response"}
                        /\ f.id \in Request /\ f \in Outgoing
  /\ \A f \in Outgoing : /\ f \in Answers \/ f.kind \in Reports
                         /\ f.kind \in Reports => f = Frame(f.kind, 0)
  /\ \A m \in Msg : /\ m.kind \in Kinds /\ m.generation \in Nat
                    /\ m = Message(m.kind, m.generation)
<1>1. ASSUME NEW f \in Incoming
      PROVE  /\ f.kind \in {"request", "cancel", "shutdown"}
             /\ f.kind = "request" => f.id \in Request
             /\ f = Frame(f.kind, f.id)
  <2>1. PICK k \in {"request", "cancel", "shutdown"}, i \in Request \union {0} :
          f = Frame(k, i) /\ (k = "request" => i \in Request)
    BY DEF Incoming
  <2>2. f.kind = k /\ f.id = i
    BY <2>1, Columns
  <2>3. QED
    BY <2>1, <2>2
<1>2. ASSUME NEW f \in Answers
      PROVE  /\ f.kind \in {"error", "session", "response"}
             /\ f.id \in Request /\ f \in Outgoing
  <2>1. PICK k \in {"error", "session", "response"}, i \in Request : f = Frame(k, i)
    BY DEF Answers
  <2>2. f.kind = k /\ f.id = i
    BY <2>1, Columns
  <2>3. QED
    BY <2>1, <2>2 DEF Outgoing
<1>3. ASSUME NEW f \in Outgoing
      PROVE  /\ f \in Answers \/ f.kind \in Reports
             /\ f.kind \in Reports => f = Frame(f.kind, 0)
  <2>1. CASE f \in Answers
    BY <1>2, <2>1 DEF Reports
  <2>2. CASE f \notin Answers
    <3>1. PICK k \in Reports : f = Frame(k, 0)
      BY <2>2 DEF Outgoing
    <3>2. f.kind = k
      BY <3>1, Columns
    <3>3. QED
      BY <3>1, <3>2
  <2>3. QED
    BY <2>1, <2>2
<1>4. ASSUME NEW m \in Msg
      PROVE  /\ m.kind \in Kinds /\ m.generation \in Nat
             /\ m = Message(m.kind, m.generation)
  <2>1. PICK k \in Kinds, g \in Nat : m = Message(k, g)
    BY DEF Msg
  <2>2. m.kind = k /\ m.generation = g
    BY <2>1, Columns
  <2>3. QED
    BY <2>1, <2>2
<1>5. QED
  BY <1>1, <1>2, <1>3, <1>4

-----------------------------------------------------------------------------
(***************************************************************************)
(* The supervisor and its child, step by step.                             *)
(***************************************************************************)
LEMMA SupSame ==
  ASSUME SupPart, UNCHANGED <<sup, control, out, core, reading, running>>
  PROVE  SupPart'
<1>1. SupTyped'
  BY DEF SupPart, SupTyped
<1>2. ChildFits'
  BY DEF SupPart, ChildFits, RunningIsReady, Alive
<1>3. ReapedFits'
  BY DEF SupPart, ReapedFits, Reported
<1>4. ReportsFit'
  BY DEF SupPart, ReportsFit, Reported, Alive
<1>5. QED
  BY <1>1, <1>2, <1>3, <1>4 DEF SupPart

\* Somebody sends the supervisor a message that is not its reader's.
LEMMA Enqueue ==
  ASSUME SupPart, NEW k \in {"start", "timer", "lock", "shutdown"},
         NEW g \in 0..sup.generation, control' = Append(control, Message(k, g)),
         UNCHANGED <<sup, out, core, reading, running>>
  PROVE  /\ SupPart'
         /\ \A l : In(control, Message(l, 0)) => In(control', Message(l, 0))
         /\ In(control', Message(k, g))
<1>1. sup \in SupModel /\ control \in Seq(Msg) /\ sup.generation \in Nat
  BY DEF SupPart, SupTyped, SupModel
<1>2. g \in Nat /\ g <= sup.generation
  BY <1>1
<1>3. Message(k, g) \in Msg
  BY <1>2 DEF Msg, Kinds
<1>4. /\ control' \in Seq(Msg)
      /\ \A x : In(control', x) <=> (x = Message(k, g) \/ In(control, x))
      /\ \A x : Once(control, x) /\ (x = Message(k, g) => ~In(control, x)) =>
                  Once(control', x)
      /\ \A x, y : NotAfter(control, x, y) /\ (y = Message(k, g) => ~In(control, x)) =>
                     NotAfter(control', x, y)
  BY <1>1, <1>3, AppendFacts
<1>5. ASSUME NEW l \in Reports \union {"exited"}, NEW h
      PROVE  Message(l, h) # Message(k, g)
  <2>1. Message(l, h).kind = l /\ Message(k, g).kind = k
    BY Columns
  <2>2. QED
    BY <2>1 DEF Reports
<1>6. \A l \in Reports \union {"exited"} : Reported(l)' <=> Reported(l)
  BY <1>4, <1>5 DEF Reported
<1>7. SupTyped'
  BY <1>4 DEF SupPart, SupTyped
<1>8. ChildFits'
  BY DEF SupPart, ChildFits, RunningIsReady, Alive
<1>9. ReapedFits'
  BY <1>6 DEF SupPart, ReapedFits
<1>10. ReportsFit'
  <2>1. \A l, h : In(control', Message(l, h)) => h <= sup.generation
    BY <1>2, <1>4, Columns DEF SupPart, ReportsFit
  <2>2. Reported("exited")' => ~reading /\ ~Alive /\ out = <<>>
    BY <1>6 DEF SupPart, ReportsFit
  <2>3. ASSUME NEW l \in Reports
        PROVE  /\ NotAfter(control', Message("exited", sup.generation),
                                     Message(l, sup.generation))
               /\ Once(control', Message(l, sup.generation))
    BY <1>4, <1>5 DEF SupPart, ReportsFit
  <2>4. \A l \in Reports : Reported(l)' <=> Reported(l)
    BY <1>6
  <2>5. QED
    BY <2>1, <2>2, <2>3, <2>4 DEF SupPart, ReportsFit, Reports, Alive
<1>11. QED
  BY <1>4, <1>7, <1>8, <1>9, <1>10 DEF SupPart

\* A live core goes on, answers, or ends.
LEMMA CoreStep ==
  ASSUME SupPart, Alive, UNCHANGED <<sup, control, reading, running>>,
         core' \in CoreStates, core' = "starting" => core = "starting",
         out' \in {out, <<>>} \union {Append(out, f) : f \in Answers}
  PROVE  SupPart'
<1>1. out \in Seq(Outgoing) /\ sup.child /\ ~Reported("exited")
  BY DEF SupPart, SupTyped, ChildFits, ReportsFit
<1>2. /\ out' \in Seq(Outgoing)
      /\ \A k \in Reports : /\ In(out', Frame(k, 0)) => In(out, Frame(k, 0))
                            /\ Once(out, Frame(k, 0)) => Once(out', Frame(k, 0))
  <2>1. CASE out' = out
    BY <1>1, <2>1
  <2>2. CASE out' = <<>>
    BY <2>2, EmptyFacts
  <2>3. ASSUME NEW f \in Answers, out' = Append(out, f)
        PROVE  /\ out' \in Seq(Outgoing)
               /\ \A k \in Reports : /\ In(out', Frame(k, 0)) => In(out, Frame(k, 0))
                                     /\ Once(out, Frame(k, 0)) => Once(out', Frame(k, 0))
    <3>1. f \in Outgoing /\ f.kind \notin Reports
      BY Contents DEF Reports
    <3>a. \A k : Frame(k, 0).kind = k
      BY Columns
    <3>2. QED
      BY <1>1, <2>3, <3>1, <3>a, AppendFacts
  <2>4. QED
    BY <2>1, <2>2, <2>3
<1>3. SupTyped'
  BY <1>2 DEF SupPart, SupTyped
<1>4. ChildFits'
  BY <1>1 DEF SupPart, ChildFits, RunningIsReady
<1>5. ReapedFits'
  BY <1>1 DEF ReapedFits
<1>6. ReportsFit'
  <2>1. \A k : Reported(k)' <=> Reported(k)
    BY DEF Reported
  <2>2. QED
    BY <1>1, <1>2, <2>1 DEF SupPart, ReportsFit, Reports
<1>7. QED
  BY <1>3, <1>4, <1>5, <1>6 DEF SupPart

\* The core has started and says so.
LEMMA ReadySup ==
  ASSUME SupPart, ready
  PROVE  SupPart'
<1>1. PICK k \in Reports : out' = Append(out, Frame(k, 0)) /\ (k = "ready" => sup.own)
  BY DEF ready, Reports
<1>2. /\ core = "starting" /\ core' = "serving"
      /\ UNCHANGED <<sup, control, reading, running>>
  BY DEF ready, shell
<1>3. /\ out \in Seq(Outgoing) /\ sup.child /\ ~Reported("exited")
      /\ ~sup.ready /\ ~sup.incompatible /\ Alive /\ Alive'
      /\ \A l \in Reports : ~Reported(l) /\ ~In(out, Frame(l, 0))
  BY <1>2 DEF SupPart, SupTyped, ChildFits, ReportsFit, Alive
<1>4. /\ out' \in Seq(Outgoing)
      /\ \A l \in Reports : In(out', Frame(l, 0)) <=> l = k
      /\ \A l \in Reports : Once(out', Frame(l, 0))
  <2>1. Frame(k, 0) \in Outgoing
    BY DEF Outgoing
  <2>2. \A l \in Reports : Frame(l, 0) = Frame(k, 0) <=> l = k
    BY Columns
  <2>3. QED
    BY <1>1, <1>3, <2>1, <2>2, AppendFacts DEF SupPart, ReportsFit
<1>5. \A l : Reported(l)' <=> Reported(l)
  BY <1>2 DEF Reported
<1>6. SupTyped'
  BY <1>2, <1>4 DEF SupPart, SupTyped, CoreStates
<1>7. ChildFits'
  BY <1>2, <1>3 DEF SupPart, ChildFits, RunningIsReady
<1>8. ReapedFits'
  BY <1>2, <1>3 DEF ReapedFits
<1>9. ReportsFit'
  BY <1>1, <1>2, <1>3, <1>4, <1>5 DEF SupPart, ReportsFit, Reports
<1>10. QED
  BY <1>6, <1>7, <1>8, <1>9 DEF SupPart

\* The reader passes an answer on, and the queue of answers is shorter.
LEMMA AnswerRead ==
  ASSUME SupPart, reading, out # <<>>, out' = Tail(out),
         UNCHANGED <<sup, control, core, reading, running>>
  PROVE  SupPart'
<1>1. out \in Seq(Outgoing) /\ ~Reported("exited") /\ (sup.child \/ sup.shutting)
  BY DEF SupPart, SupTyped, ReapedFits, ReportsFit
<1>2. /\ out' \in Seq(Outgoing)
      /\ \A x : In(out', x) => In(out, x)
      /\ \A x : Once(out, x) => Once(out', x)
  BY <1>1, TailFacts
<1>3. \A k : Reported(k)' <=> Reported(k)
  BY DEF Reported
<1>4. SupTyped' /\ ChildFits'
  BY <1>2 DEF SupPart, SupTyped, ChildFits, RunningIsReady, Alive
<1>5. ReapedFits'
  BY <1>1 DEF ReapedFits
<1>6. ReportsFit'
  BY <1>1, <1>2, <1>3 DEF SupPart, ReportsFit, Alive
<1>7. QED
  BY <1>4, <1>5, <1>6 DEF SupPart

\* The reader passes a report on.
LEMMA ReportRead ==
  ASSUME SupPart, reading, out # <<>>, out' = Tail(out), NEW k \in Reports,
         Head(out) = Frame(k, 0),
         control' = Append(control, Message(k, sup.generation)),
         UNCHANGED <<sup, core, reading, running>>
  PROVE  /\ SupPart'
         /\ \A x : In(control, x) => In(control', x)
<1>1. /\ out \in Seq(Outgoing) /\ control \in Seq(Msg) /\ sup.generation \in Nat
      /\ ~Reported("exited") /\ (sup.child \/ sup.shutting)
  BY DEF SupPart, SupTyped, ReapedFits, ReportsFit, SupModel
<1>2. /\ out' \in Seq(Outgoing) /\ In(out, Frame(k, 0))
      /\ \A x : In(out', x) => In(out, x)
      /\ \A x : Once(out, x) => Once(out', x) /\ (x = Frame(k, 0) => ~In(out', x))
  BY <1>1, TailFacts
<1>3. /\ ~sup.ready /\ ~sup.incompatible /\ core # "starting"
      /\ \A l \in Reports : ~Reported(l)
      /\ \A l \in Reports : In(out, Frame(l, 0)) => l = k
      /\ \A l \in Reports : Once(out, Frame(l, 0))
      /\ k = "ready" => sup.own
  BY <1>2 DEF SupPart, ReportsFit
<1>4. \A l \in Reports : ~In(out', Frame(l, 0))
  BY <1>2, <1>3
<1>5. Message(k, sup.generation) \in Msg
  BY <1>1 DEF Msg, Kinds
<1>6. /\ control' \in Seq(Msg)
      /\ \A x : In(control', x) <=> (x = Message(k, sup.generation) \/ In(control, x))
      /\ \A x : Once(control, x) /\ (x = Message(k, sup.generation) => ~In(control, x)) =>
                  Once(control', x)
      /\ \A x, y : /\ NotAfter(control, x, y)
                   /\ y = Message(k, sup.generation) => ~In(control, x)
                   => NotAfter(control', x, y)
  BY <1>1, <1>5, AppendFacts
<1>7. \A l, g : Message(l, g) = Message(k, sup.generation) => l = k /\ g = sup.generation
  <2>1. \A l, g : Message(l, g).kind = l /\ Message(l, g).generation = g
    BY Columns
  <2>2. QED
    BY <2>1
<1>8. /\ \A l \in Reports : Reported(l)' => l = k
      /\ ~Reported("exited")'
  <2>1. "exited" # k
    BY DEF Reports
  <2>2. QED
    BY <1>1, <1>3, <1>6, <1>7, <2>1 DEF Reported
<1>9. SupTyped' /\ ChildFits'
  BY <1>2, <1>6 DEF SupPart, SupTyped, ChildFits, RunningIsReady, Alive
<1>10. ReapedFits'
  BY <1>1 DEF ReapedFits
<1>11. ReportsFit'
  <2>1. \A l, g : In(control', Message(l, g)) => g <= sup.generation
    BY <1>1, <1>6, <1>7 DEF SupPart, ReportsFit
  <2>2. ASSUME NEW l \in Reports
        PROVE  /\ NotAfter(control', Message("exited", sup.generation),
                                     Message(l, sup.generation))
               /\ Once(control', Message(l, sup.generation))
               /\ Once(out', Frame(l, 0))
    BY <1>1, <1>2, <1>3, <1>6 DEF SupPart, ReportsFit, Reported
  <2>3. QED
    BY <1>3, <1>4, <1>8, <2>1, <2>2 DEF SupPart, ReportsFit, Reports, Alive
<1>12. QED
  BY <1>6, <1>9, <1>10, <1>11 DEF SupPart

\* The reader ends and says so.
LEMMA ReaderEnds ==
  ASSUME SupPart, fail_all
  PROVE  /\ SupPart'
         /\ \A x : In(control, x) => In(control', x)
<1>1. /\ reading /\ core = "dead" /\ out = <<>> /\ ~reading' /\ reading' \in BOOLEAN
      /\ control' = Append(control, Message("exited", sup.generation))
      /\ UNCHANGED <<sup, running, core, out>>
  BY DEF fail_all, child
<1>2. /\ control \in Seq(Msg) /\ sup.generation \in Nat /\ ~Alive
      /\ (sup.child \/ sup.shutting)
  BY <1>1 DEF SupPart, SupTyped, ReapedFits, SupModel, Alive
<1>3. Message("exited", sup.generation) \in Msg
  BY <1>2, Messages
<1>4. /\ control' \in Seq(Msg)
      /\ \A x : In(control', x) <=> (x = Message("exited", sup.generation) \/ In(control, x))
      /\ \A x : /\ Once(control, x)
                /\ x = Message("exited", sup.generation) => ~In(control, x)
                => Once(control', x)
      /\ \A x, y : /\ NotAfter(control, x, y)
                   /\ y = Message("exited", sup.generation) => ~In(control, x)
                   => NotAfter(control', x, y)
  BY <1>1, <1>2, <1>3, AppendFacts
<1>5. \A l, g : Message(l, g).kind = l /\ Message(l, g).generation = g
  BY Columns
<1>6. ASSUME NEW l \in Reports, NEW g
      PROVE  Message(l, g) # Message("exited", sup.generation)
  <2>1. Message(l, g).kind = l /\ Message("exited", sup.generation).kind = "exited"
    BY <1>5
  <2>2. QED
    BY <2>1 DEF Reports
<1>7. \A l \in Reports : Reported(l)' <=> Reported(l)
  BY <1>1, <1>4, <1>6 DEF Reported
<1>8. SupTyped' /\ ChildFits'
  BY <1>1, <1>4 DEF SupPart, SupTyped, ChildFits, RunningIsReady, Alive
<1>9. ReapedFits'
  BY <1>1, <1>2 DEF ReapedFits
<1>10. ReportsFit'
  <2>1. \A l, g : In(control', Message(l, g)) => g <= sup.generation
    BY <1>2, <1>4, <1>5 DEF SupPart, ReportsFit
  <2>2. ASSUME NEW l \in Reports
        PROVE  /\ NotAfter(control', Message("exited", sup.generation),
                                     Message(l, sup.generation))
               /\ Once(control', Message(l, sup.generation))
    BY <1>4, <1>6 DEF SupPart, ReportsFit
  <2>3. QED
    BY <1>1, <1>2, <1>7, <2>1, <2>2 DEF SupPart, ReportsFit, Reports, Alive
<1>11. QED
  BY <1>4, <1>8, <1>9, <1>10 DEF SupPart

-----------------------------------------------------------------------------
(***************************************************************************)
(* The supervisor's messages.                                              *)
(***************************************************************************)
\* What a step of the supervisor leaves in its queue, for generation g.
Leaves(g) ==
  /\ control' \in Seq(Msg)
  /\ \A k, h : In(control', Message(k, h)) => h <= g
  /\ \A h : \A k \in Kinds \ {"start"} : In(control', Message(k, h)) => In(control, Message(k, h))
  /\ \A h : \A k \in Reports :
       /\ Once(control, Message(k, h)) => Once(control', Message(k, h))
       /\ NotAfter(control, Message("exited", h), Message(k, h)) =>
            NotAfter(control', Message("exited", h), Message(k, h))

\* A message is taken from the queue, and a new start may be put there.
LEMMA Dequeue ==
  ASSUME SupPart, control # <<>>,
         control' \in {Tail(control), Append(Tail(control), Message("start", 0))}
  PROVE  /\ Leaves(sup.generation)
         /\ Head(control) \in Msg
         /\ In(control, Head(control))
         /\ \A x : In(control, x) => x = Head(control) \/ In(control', x)
         /\ \A h : \A k \in Reports :
              /\ Once(control, Message(k, h)) /\ Head(control) = Message(k, h) =>
                   ~In(control', Message(k, h))
              /\ /\ NotAfter(control, Message("exited", h), Message(k, h))
                 /\ Head(control) = Message("exited", h)
                 => ~In(control', Message(k, h))
<1> DEFINE t == Tail(control)
           s == Message("start", 0)
<1>1. /\ control \in Seq(Msg) /\ sup.generation \in Nat
      /\ \A k, h : In(control, Message(k, h)) => h <= sup.generation
  BY DEF SupPart, SupTyped, SupModel, ReportsFit
<1>2. s \in Msg
  BY Messages
<1>3. /\ t \in Seq(Msg) /\ Head(control) \in Msg
      /\ \A x : In(control, x) <=> (x = Head(control) \/ In(t, x))
      /\ \A x : Once(control, x) => Once(t, x) /\ (x = Head(control) => ~In(t, x))
      /\ \A x, y : NotAfter(control, x, y) =>
           NotAfter(t, x, y) /\ (x = Head(control) => ~In(t, y))
  BY <1>1, TailFacts
<1>4. /\ \A k, h : Message(k, h).kind = k /\ Message(k, h).generation = h
      /\ s.kind = "start" /\ s.generation = 0
  BY Columns
<1>5. \A k, h : Message(k, h) = s => k = "start" /\ h = 0
  BY <1>4
<1> HIDE DEF t, s
<1>6. /\ control' \in Seq(Msg)
      /\ \A x : In(control', x) => x = s \/ In(t, x)
      /\ \A x : In(t, x) => In(control', x)
      /\ \A x : Once(t, x) /\ x # s => Once(control', x)
      /\ \A x, y : NotAfter(t, x, y) /\ y # s => NotAfter(control', x, y)
  <2>1. CASE control' = t
    BY <1>3, <2>1
  <2>2. CASE control' = Append(t, s)
    BY <1>2, <1>3, <2>2, AppendFacts
  <2>3. QED
    BY <2>1, <2>2 DEF t, s
<1>7. \A h : \A k \in Reports : Message(k, h) # s
  BY <1>5 DEF Reports
<1>8. Leaves(sup.generation)
  <2>1. \A k, h : In(control', Message(k, h)) => h <= sup.generation
    BY <1>1, <1>3, <1>5, <1>6
  <2>2. \A h : \A k \in Kinds \ {"start"} :
          In(control', Message(k, h)) => In(control, Message(k, h))
    BY <1>3, <1>5, <1>6
  <2>3. ASSUME NEW k \in Reports, NEW h
        PROVE  /\ Once(control, Message(k, h)) => Once(control', Message(k, h))
               /\ NotAfter(control, Message("exited", h), Message(k, h)) =>
                    NotAfter(control', Message("exited", h), Message(k, h))
    BY <1>3, <1>6, <1>7
  <2>4. QED
    BY <1>6, <2>1, <2>2, <2>3 DEF Leaves
<1>9. ASSUME NEW k \in Reports, NEW h
      PROVE  /\ Once(control, Message(k, h)) /\ Head(control) = Message(k, h) =>
                  ~In(control', Message(k, h))
             /\ /\ NotAfter(control, Message("exited", h), Message(k, h))
                /\ Head(control) = Message("exited", h)
                => ~In(control', Message(k, h))
  BY <1>3, <1>6, <1>7
<1>10. QED
  BY <1>3, <1>6, <1>8, <1>9

\* The supervisor goes on with the same generation.
LEMMA Handled ==
  ASSUME SupPart, Leaves(sup.generation), sup' \in SupModel,
         sup'.generation = sup.generation, sup'.own = sup.own,
         reading' = reading, running' \in {0, sup.generation},
         core' \in CoreStates, core' = "starting" => core = "starting",
         Alive' => Alive, out' \in {out, <<>>}, ChildFits',
         (sup'.ready /\ ~sup.ready) \/ (sup'.incompatible /\ ~sup.incompatible) =>
           \E l \in Reports : Reported(l) /\ ~Reported(l)',
         ~sup'.child /\ ~sup'.shutting =>
           /\ ~sup'.incompatible
           /\ \/ ~sup.child /\ ~sup.shutting
              \/ Reported("exited") /\ \A l \in Reports : ~Reported(l)'
  PROVE  SupPart'
<1>1. /\ out \in Seq(Outgoing) /\ out' \in Seq(Outgoing)
      /\ \A x : In(out', x) => In(out, x)
      /\ \A x : Once(out, x) => Once(out', x)
      /\ out = <<>> => out' = <<>>
  BY EmptyFacts DEF SupPart, SupTyped
<1>2. \A l \in Reports \union {"exited"} : Reported(l)' => Reported(l)
  BY DEF Leaves, Reported, Kinds, Reports
<1>3. SupTyped'
  BY <1>1 DEF SupPart, SupTyped, Leaves
<1>4. ReapedFits'
  <2>1. SUFFICES ASSUME ~sup'.child /\ ~sup'.shutting
                 PROVE  /\ ~sup'.incompatible /\ ~reading' /\ out' = <<>>
                        /\ \A k \in Reports : ~Reported(k)'
    BY DEF ReapedFits
  <2>2. CASE ~sup.child /\ ~sup.shutting
    BY <1>1, <1>2, <2>1, <2>2 DEF SupPart, ReapedFits
  <2>3. CASE Reported("exited") /\ \A l \in Reports : ~Reported(l)'
    BY <1>1, <2>1, <2>3 DEF SupPart, ReportsFit
  <2>4. QED
    BY <2>1, <2>2, <2>3
<1>5. ASSUME NEW k \in Reports, Reported(k)' \/ In(out', Frame(k, 0))
      PROVE  ~sup'.ready /\ ~sup'.incompatible /\ core' # "starting"
  <2>1. Reported(k) \/ In(out, Frame(k, 0))
    BY <1>1, <1>2, <1>5
  <2>2. ~sup.ready /\ ~sup.incompatible /\ core # "starting"
    BY <2>1 DEF SupPart, ReportsFit
  <2>3. ASSUME NEW l \in Reports, Reported(l), ~Reported(l)' PROVE FALSE
    <3>1. ~In(out, Frame(k, 0))
      BY <2>3 DEF SupPart, ReportsFit
    <3>2. Reported(k) /\ Reported(k)'
      BY <1>1, <1>5, <2>1, <3>1
    <3>3. k = l
      BY <2>3, <3>2 DEF SupPart, ReportsFit
    <3>4. QED
      BY <2>3, <3>2, <3>3
  <2>4. QED
    BY <2>2, <2>3
<1>6. ASSUME core' = "starting" PROVE ~sup'.ready /\ ~sup'.incompatible
  <2>1. ~sup.ready /\ ~sup.incompatible /\ \A l \in Reports : ~Reported(l)
    BY <1>6 DEF SupPart, ReportsFit
  <2>2. QED
    BY <2>1
<1>7. ReportsFit'
  <2>1. \A k, g : In(control', Message(k, g)) => g <= sup'.generation
    BY DEF Leaves
  <2>2. Reported("exited")' => ~reading' /\ ~Alive' /\ out' = <<>>
    BY <1>1, <1>2 DEF SupPart, ReportsFit
  <2>3. ASSUME NEW k \in Reports
        PROVE  /\ NotAfter(control', Message("exited", sup'.generation),
                                     Message(k, sup'.generation))
               /\ Once(control', Message(k, sup'.generation))
               /\ Once(out', Frame(k, 0))
    BY <1>1 DEF SupPart, ReportsFit, Leaves
  <2>4. ASSUME NEW k \in Reports, NEW l \in Reports
        PROVE  /\ Reported(k)' => ~In(out', Frame(l, 0))
               /\ Reported(k)' /\ Reported(l)' => k = l
               /\ In(out', Frame(k, 0)) /\ In(out', Frame(l, 0)) => k = l
    BY <1>1, <1>2 DEF SupPart, ReportsFit
  <2>5. Reported("ready")' \/ In(out', Frame("ready", 0)) => sup'.own
    BY <1>1, <1>2 DEF SupPart, ReportsFit, Reports
  <2>6. QED
    BY <1>5, <1>6, <2>1, <2>2, <2>3, <2>4, <2>5 DEF ReportsFit
<1>8. QED
  BY <1>3, <1>4, <1>7 DEF SupPart

\* What became of a process that was killed, or was gone already.
LEMMA Killed ==
  ASSUME SupPart, Kill
  PROVE  /\ core' \in CoreStates /\ (core' = "starting" => core = "starting")
         /\ ~Alive' /\ out' \in {out, <<>>}
         /\ UNCHANGED child \/ (Alive /\ Ends(out))
<1>1. CASE Alive
  BY <1>1 DEF Kill, Ends, Alive, CoreStates
<1>2. CASE ~Alive
  BY <1>2 DEF Kill, child, Alive, SupPart, SupTyped
<1>3. QED
  BY <1>1, <1>2

LEMMA TrySend ==
  ASSUME NEW g, NEW f, NEW s \in try_send(g, f), s # Failed
  PROVE  \/ s = frames
         \/ s = Append(frames, f) /\ g = sup.generation /\ Alive /\ Len(frames) < MaxQueued
BY DEF try_send, Room

\* A status that is not "ready" was shown, or two.
Resets == \E n \in 1..2 : policy' = reset_renderer(n)

\* A step of the supervisor that is not a new generation: its child goes on or
\* ends, and while a ready one goes on, a lock that was coming still comes.
SameChild ==
  /\ sup'.generation = sup.generation /\ (sup.ready => sup'.ready)
  /\ hold' = hold
  /\ \/ frames' = frames
     \/ frames' = Append(frames, Frame("shutdown", 0)) /\ Len(frames) < MaxQueued
  /\ UNCHANGED child \/ (Alive /\ Ends(out))
  /\ Alive' /\ sup.ready /\ LockComing => LockComing'
  /\ policy' = policy \/ (Resets /\ ~Alive')

\* A step of the supervisor that begins a new generation.
NewChild ==
  /\ sup'.generation = sup.generation + 1 /\ ~Alive /\ Resets
  /\ UNCHANGED <<pipe, task, out, keys, taken>>
  /\ \/ frames' = <<>> /\ hold' = NoFrame
     \/ frames' = frames /\ hold' = hold /\ ~Alive'

\* A message other than a lock or a shutdown does not end the wait for one.
LEMMA StillComing ==
  ASSUME \A x : In(control, x) => x = Head(control) \/ In(control', x),
         Head(control).kind \notin {"lock", "shutdown"},
         policy' = policy, sup'.grace = sup.grace, LockComing
  PROVE  LockComing'
<1>1. Message("lock", 0).kind = "lock" /\ Message("shutdown", 0).kind = "shutdown"
  BY Columns
<1>2. QED
  BY <1>1 DEF LockComing

LEMMA StartOK ==
  ASSUME SupPart, control # <<>>, Start(Head(control)), Stays
  PROVE  SupPart' /\ (SameChild \/ NewChild)
<1> DEFINE m == Head(control)
<1>1. /\ Leaves(sup.generation) /\ m \in Msg
      /\ \A x : In(control, x) => x = m \/ In(control', x)
  BY Dequeue DEF Start
<1>2. m.kind = "start" /\ sup \in SupModel /\ sup.generation \in Nat
  BY DEF Start, SupPart, SupTyped, SupModel
<1>3. CASE sup.shutting \/ sup.child
  <2>1. UNCHANGED <<sup, running, frames, hold, reading, child, policy>>
    BY <1>3 DEF Start
  <2>2. UNCHANGED <<core, out>>
    BY <2>1 DEF child
  <2>3. ChildFits' /\ running' \in {0, sup.generation} /\ core' \in CoreStates
    BY <2>1, <2>2 DEF SupPart, ChildFits, RunningIsReady, Alive, SupTyped
  <2>4. Alive' => Alive
    BY <2>2 DEF Alive
  <2>5. ~sup'.child /\ ~sup'.shutting => ~sup.child /\ ~sup.shutting /\ ~sup'.incompatible
    BY <2>1 DEF SupPart, ReapedFits
  <2>6. SupPart'
    BY <1>1, <1>2, <2>1, <2>2, <2>3, <2>4, <2>5, Handled
  <2>7. LockComing => LockComing'
    BY <1>1, <1>2, <2>1, StillComing
  <2>8. SameChild
    BY <2>1, <2>7 DEF SameChild
  <2>9. QED
    BY <2>6, <2>8
<1>4. CASE ~sup.shutting /\ ~sup.child
  <2>1. /\ ~sup.incompatible /\ ~reading /\ out = <<>> /\ ~Alive /\ ~sup.writer
        /\ ~sup.grace /\ running = 0
    BY <1>2, <1>4 DEF SupPart, ReapedFits, ChildFits, RunningIsReady, SupModel
  <2> DEFINE Begun ==
       /\ sup' \in SupModel /\ sup'.generation = sup.generation + 1 /\ ~sup'.ready
       /\ ~sup'.incompatible /\ ~sup'.grace /\ ~sup'.shutting
       /\ sup'.writer => sup'.child
       /\ sup'.child => sup'.writer
       /\ running' = 0 /\ out' = <<>>
       /\ core' \in CoreStates /\ reading' \in BOOLEAN
       /\ UNCHANGED <<pipe, task, out, keys, taken>>
       /\ Alive' => sup'.child /\ frames' = <<>> /\ hold' = NoFrame
       /\ ~sup'.child => ~reading' /\ ~Alive'
       /\ \/ frames' = <<>> /\ hold' = NoFrame
          \/ frames' = frames /\ hold' = hold /\ ~Alive'
       /\ Resets
  <2>2. Begun
    <3>1. ASSUME NEW own \in BOOLEAN, NEW st \in {"restarting", "starting"},
                 sup' = [sup EXCEPT !.generation = @ + 1, !.ready = FALSE,
                           !.child = TRUE, !.writer = TRUE, !.own = own, !.state = st],
                 core' = "starting", reading' = TRUE,
                 frames' = <<>>, hold' = NoFrame, policy' = on_status(1),
                 UNCHANGED <<running, pipe, task, out, keys, taken>>
          PROVE  Begun
      <4>1. /\ sup' \in SupModel /\ sup'.generation = sup.generation + 1 /\ ~sup'.ready
            /\ ~sup'.incompatible /\ ~sup'.grace /\ ~sup'.shutting
            /\ sup'.writer /\ sup'.child
        <5>a. PICK n \in Nat : n = sup.generation + 1
          BY <1>2
        <5>b. sup' = [sup EXCEPT !.generation = n, !.ready = FALSE,
                        !.child = TRUE, !.writer = TRUE, !.own = own, !.state = st]
          BY <5>a, <3>1
        <5>1. sup' \in SupModel /\ sup'.generation = sup.generation + 1
          BY <1>2, <5>a, <5>b DEF SupModel
        <5>2. /\ sup'.ready = FALSE /\ sup'.incompatible = sup.incompatible
              /\ sup'.grace = sup.grace /\ sup'.shutting = sup.shutting
              /\ sup'.writer = TRUE /\ sup'.child = TRUE
          BY <1>2, <3>1 DEF SupModel
        <5>3. QED
          BY <1>4, <2>1, <5>1, <5>2
      <4>2. QED
        BY <2>1, <3>1, <4>1 DEF CoreStates, Resets, on_status
    <3>2. CASE /\ sup' = [sup EXCEPT !.generation = @ + 1, !.ready = FALSE,
                                     !.state = "failed"]
               /\ policy' = on_status(2)
               /\ UNCHANGED <<running, frames, hold, reading, child>>
      <4>1. /\ sup' \in SupModel /\ sup'.generation = sup.generation + 1 /\ ~sup'.ready
            /\ ~sup'.incompatible /\ ~sup'.grace /\ ~sup'.shutting
            /\ ~sup'.writer /\ ~sup'.child
        <5>a. PICK n \in Nat : n = sup.generation + 1
          BY <1>2
        <5>b. sup' = [sup EXCEPT !.generation = n, !.ready = FALSE,
                                 !.state = "failed"]
          BY <5>a, <3>2
        <5>1. sup' \in SupModel /\ sup'.generation = sup.generation + 1
          BY <1>2, <5>a, <5>b DEF SupModel
        <5>2. /\ sup'.ready = FALSE /\ sup'.incompatible = sup.incompatible
              /\ sup'.grace = sup.grace /\ sup'.shutting = sup.shutting
              /\ sup'.writer = sup.writer /\ sup'.child = sup.child
          BY <1>2, <3>2 DEF SupModel
        <5>3. QED
          BY <1>4, <2>1, <5>1, <5>2
      <4>2. QED
        BY <2>1, <3>2, <4>1 DEF SupPart, SupTyped, Alive, child, Resets, on_status
    <3>3. QED
      <4>1. PICK st \in {"restarting", "starting"} :
              st = IF sup.crashes > 0 THEN "restarting" ELSE "starting"
        OBVIOUS
      <4>2. QED
        BY <1>4, <3>1, <3>2, <4>1 DEF Start
  <2>3. \A k : ~Reported(k)'
    <3>1. ASSUME NEW k PROVE ~In(control', Message(k, sup'.generation))
      BY <1>1, <1>2, <2>2 DEF Leaves
    <3>2. QED
      BY <3>1 DEF Reported
  <2>4. \A x : ~In(out', x) /\ Once(out', x)
    BY <2>2, EmptyFacts
  <2>5. ASSUME NEW k \in Reports
        PROVE  /\ NotAfter(control', Message("exited", sup'.generation),
                                     Message(k, sup'.generation))
               /\ Once(control', Message(k, sup'.generation))
    <3>1. ~In(control', Message(k, sup'.generation))
      BY <2>3 DEF Reported
    <3>2. QED
      BY <3>1 DEF In, NotAfter, Once
  <2>6. \A k, g : In(control', Message(k, g)) => g <= sup'.generation
    <3>1. ASSUME NEW k, NEW g, In(control', Message(k, g)) PROVE g <= sup'.generation
      <4>1. Message(k, g).generation = g /\ In(control', Message(k, g)) /\ control' \in Seq(Msg)
        BY <1>1, <3>1, Columns DEF Leaves
      <4>2. g <= sup.generation /\ g \in Nat
        <5>1. PICK i \in DOMAIN control' : control'[i] = Message(k, g)
          BY <4>1 DEF In
        <5>2. Message(k, g) \in Msg
          BY <4>1, <5>1
        <5>3. QED
          BY <1>1, <4>1, <5>2, Contents DEF Leaves
      <4>3. QED
        BY <1>2, <2>2, <4>2
    <3>2. QED
      BY <3>1
  <2>7. SupTyped'
    BY <1>1, <2>2, EmptyFacts DEF SupTyped, Leaves
  <2>8. ChildFits'
    BY <2>2 DEF ChildFits, RunningIsReady
  <2>9. ReapedFits'
    BY <2>2, <2>3 DEF ReapedFits
  <2>10. ReportsFit'
    BY <2>2, <2>3, <2>4, <2>5, <2>6 DEF ReportsFit
  <2>11. NewChild
    BY <2>1, <2>2 DEF NewChild
  <2>12. QED
    BY <2>7, <2>8, <2>9, <2>10, <2>11 DEF SupPart
<1>5. QED
  BY <1>3, <1>4

LEMMA ReadyOK ==
  ASSUME SupPart, control # <<>>, Ready(Head(control)), Stays
  PROVE  SupPart' /\ SameChild
<1> DEFINE m == Head(control)
<1>1. /\ Leaves(sup.generation) /\ m \in Msg /\ In(control, m)
      /\ \A x : In(control, x) => x = m \/ In(control', x)
      /\ \A h : \A k \in Reports :
           Once(control, Message(k, h)) /\ m = Message(k, h) => ~In(control', Message(k, h))
  BY Dequeue DEF Ready
<1>2. PICK k \in Reports : m.kind = k /\ m = Message(k, sup.generation)
  BY <1>1, Contents DEF Ready, Reports
<1>3. /\ sup \in SupModel /\ Reported(k) /\ ~sup.ready /\ ~sup.incompatible
      /\ core # "starting" /\ (sup.child \/ sup.shutting)
      /\ ~In(control', Message(k, sup.generation)) /\ policy' = policy
      /\ k = "ready" => sup.own
  BY <1>1, <1>2 DEF SupPart, SupTyped, ReportsFit, ReapedFits, Reported, Ready
<1>4. sup.generation \in Nat /\ running = 0
  BY <1>3 DEF SupPart, SupTyped, ChildFits, RunningIsReady, SupModel
<1>5. UNCHANGED <<frames, hold, reading>>
  BY DEF Ready
<1>6. m.kind \notin {"lock", "shutdown"}
  BY <1>2 DEF Reports
<1>7. CASE m.kind = "other version"
  <2>1. /\ sup' = [sup EXCEPT !.incompatible = TRUE] /\ UNCHANGED running
        /\ Kill \/ UNCHANGED child
    BY <1>7 DEF Ready
  <2>2. sup' \in SupModel
    BY <1>3, <2>1 DEF SupModel
  <2>3. /\ sup'.generation = sup.generation /\ sup'.ready = sup.ready
        /\ sup'.child = sup.child /\ sup'.writer = sup.writer
        /\ sup'.shutting = sup.shutting /\ sup'.grace = sup.grace /\ sup'.own = sup.own
    BY <1>3, <2>1 DEF SupModel
  <2>4. /\ core' \in CoreStates /\ (core' = "starting" => core = "starting")
        /\ Alive' => Alive
        /\ out' \in {out, <<>>}
        /\ UNCHANGED child \/ (Alive /\ Ends(out))
    BY <2>1, Killed DEF child, Alive, SupPart, SupTyped
  <2>5. ChildFits'
    BY <1>4, <2>1, <2>3, <2>4 DEF SupPart, ChildFits, RunningIsReady
  <2>6. Reported(k) /\ ~Reported(k)'
    BY <1>3, <2>3 DEF Reported
  <2>7. SupPart'
    BY <1>1, <1>3, <1>4, <1>5, <2>1, <2>2, <2>3, <2>4, <2>5, <2>6, Handled
  <2>8. LockComing => LockComing'
    BY <1>1, <1>3, <1>6, <2>3, StillComing
  <2>9. QED
    BY <1>3, <1>5, <2>3, <2>4, <2>7, <2>8 DEF SameChild
<1>8. CASE m.kind = "ready" /\ sup.writer
  <2>1. /\ sup' = [sup EXCEPT !.ready = TRUE, !.state = "ready"]
        /\ running' = sup.generation /\ UNCHANGED child
    BY <1>8 DEF Ready
  <2>2. sup' \in SupModel
    BY <1>3, <2>1 DEF SupModel
  <2>3. /\ sup'.generation = sup.generation /\ sup'.ready = TRUE
        /\ sup'.incompatible = sup.incompatible
        /\ sup'.child = sup.child /\ sup'.writer = sup.writer
        /\ sup'.shutting = sup.shutting /\ sup'.grace = sup.grace /\ sup'.own = sup.own
    BY <1>3, <2>1 DEF SupModel
  <2>4. /\ core' \in CoreStates /\ core' = core /\ out' = out
        /\ Alive' <=> Alive
    BY <2>1 DEF child, Alive, SupPart, SupTyped
  <2>5. ChildFits'
    BY <1>2, <1>3, <1>8, <2>1, <2>3, <2>4 DEF SupPart, ChildFits, RunningIsReady
  <2>6. Reported(k) /\ ~Reported(k)'
    BY <1>3, <2>3 DEF Reported
  <2>7. SupPart'
    BY <1>1, <1>3, <1>4, <1>5, <2>1, <2>2, <2>3, <2>4, <2>5, <2>6, Handled
  <2>8. LockComing => LockComing'
    BY <1>1, <1>3, <1>6, <2>3, StillComing
  <2>9. QED
    BY <1>3, <1>5, <2>1, <2>3, <2>4, <2>7, <2>8 DEF SameChild
<1>9. CASE m.kind = "ready" /\ ~sup.writer
  <2>1. /\ sup' = [sup EXCEPT !.panicked = TRUE] /\ UNCHANGED <<running, child>>
    BY <1>9 DEF Ready
  <2>2. sup' \in SupModel
    BY <1>3, <2>1 DEF SupModel
  <2>3. /\ sup'.generation = sup.generation /\ sup'.ready = sup.ready
        /\ sup'.incompatible = sup.incompatible
        /\ sup'.child = sup.child /\ sup'.writer = sup.writer
        /\ sup'.shutting = sup.shutting /\ sup'.grace = sup.grace /\ sup'.own = sup.own
    BY <1>3, <2>1 DEF SupModel
  <2>4. /\ core' \in CoreStates /\ core' = core /\ out' = out
        /\ Alive' <=> Alive
    BY <2>1 DEF child, Alive, SupPart, SupTyped
  <2>5. ChildFits'
    BY <1>4, <2>1, <2>3, <2>4 DEF SupPart, ChildFits, RunningIsReady
  <2>6. Reported(k) /\ ~Reported(k)'
    BY <1>3, <2>3 DEF Reported
  <2>7. SupPart'
    BY <1>1, <1>3, <1>4, <1>5, <2>1, <2>2, <2>3, <2>4, <2>5, <2>6, Handled
  <2>8. LockComing => LockComing'
    BY <1>1, <1>3, <1>6, <2>3, StillComing
  <2>9. QED
    BY <1>3, <1>5, <2>1, <2>3, <2>4, <2>7, <2>8 DEF SameChild
<1>10. QED
  BY <1>2, <1>7, <1>8, <1>9 DEF Reports

\* The other messages: only crashes, the state shown, and what follows a kill.
LEMMA Quiet ==
  ASSUME SupPart, control # <<>>, control' = Tail(control), Stays,
         sup' \in SupModel, sup'.generation = sup.generation, sup'.child = sup.child,
         sup'.writer = sup.writer, sup'.ready = sup.ready, sup'.grace = sup.grace,
         sup'.incompatible = sup.incompatible, sup'.shutting = sup.shutting,
         sup'.own = sup.own, policy' = policy,
         UNCHANGED <<frames, hold, reading>>, running' \in {0, running},
         Kill \/ UNCHANGED child
  PROVE  /\ SupPart'
         /\ Head(control).kind \notin {"lock", "shutdown"} \/ ~sup.ready \/ Kill => SameChild
<1>1. /\ Leaves(sup.generation)
      /\ \A x : In(control, x) => x = Head(control) \/ In(control', x)
  BY Dequeue
<1>2. /\ core' \in CoreStates /\ (core' = "starting" => core = "starting")
      /\ Alive' => Alive
      /\ Kill => ~Alive'
      /\ out' \in {out, <<>>}
      /\ UNCHANGED child \/ (Alive /\ Ends(out))
  BY Killed DEF child, Alive, SupPart, SupTyped
<1>3. ChildFits' /\ running' \in {0, sup.generation}
  BY <1>2 DEF SupPart, ChildFits, RunningIsReady, SupTyped
<1>4. ~sup'.child /\ ~sup'.shutting => ~sup.child /\ ~sup.shutting /\ ~sup'.incompatible
  BY DEF SupPart, ReapedFits
<1>5. SupPart'
  BY <1>1, <1>2, <1>3, <1>4, Handled
<1>6. ASSUME Head(control).kind \notin {"lock", "shutdown"} PROVE LockComing => LockComing'
  BY <1>1, <1>6, StillComing
<1>7. QED
  BY <1>2, <1>5, <1>6 DEF SameChild

LEMMA TimeoutOK ==
  ASSUME SupPart, control # <<>>, ReadyTimeout(Head(control)), Stays
  PROVE  SupPart' /\ SameChild
<1>1. /\ sup \in SupModel /\ Head(control).kind = "timer"
      /\ Kill \/ UNCHANGED child
      /\ UNCHANGED <<sup, running, frames, hold, reading, policy>>
      /\ control' = Tail(control)
  BY DEF SupPart, SupTyped, ReadyTimeout
<1>2. QED
  BY <1>1, Quiet

LEMMA IgnoredOK ==
  ASSUME SupPart, control # <<>>, Ignored(Head(control)), Stays
  PROVE  SupPart' /\ SameChild
<1>1. /\ sup \in SupModel /\ Head(control).kind \notin {"lock", "shutdown"}
      /\ UNCHANGED <<sup, running, frames, hold, reading, child, policy>>
      /\ control' = Tail(control)
  BY DEF SupPart, SupTyped, Ignored
<1>2. QED
  BY <1>1, Quiet

LEMMA LockOK ==
  ASSUME SupPart, control # <<>>, Lock(Head(control)), Stays
  PROVE  SupPart' /\ SameChild
<1>1. /\ sup \in SupModel /\ sup' = [sup EXCEPT !.crashes = 0] /\ running' = 0
      /\ UNCHANGED <<frames, hold, reading, policy>> /\ control' = Tail(control)
      /\ IF sup.ready /\ sup.child THEN Kill ELSE UNCHANGED child
  BY DEF SupPart, SupTyped, Lock
<1>2. /\ sup' \in SupModel /\ sup'.generation = sup.generation
      /\ sup'.child = sup.child /\ sup'.writer = sup.writer
      /\ sup'.ready = sup.ready /\ sup'.grace = sup.grace
      /\ sup'.incompatible = sup.incompatible /\ sup'.shutting = sup.shutting
      /\ sup'.own = sup.own
  BY <1>1 DEF SupModel
<1>3. ~sup.ready \/ Kill
  <2>1. CASE sup.child
    BY <1>1, <2>1
  <2>2. CASE ~sup.child
    <3>1. ~Alive
      BY <2>2 DEF SupPart, ChildFits
    <3>2. QED
      BY <1>1, <2>2, <3>1 DEF Kill
  <2>3. QED
    BY <2>1, <2>2
<1>4. QED
  BY <1>1, <1>2, <1>3, Quiet

LEMMA ExitedOK ==
  ASSUME SupPart, control # <<>>, Exited(Head(control)), Stays, ~sup.grace
  PROVE  SupPart' /\ SameChild
<1> DEFINE m == Head(control)
           gone == [sup EXCEPT !.child = FALSE, !.writer = FALSE]
<1>1. control' \in {Tail(control), Append(Tail(control), Message("start", 0))}
  BY DEF Exited
<1>2. /\ Leaves(sup.generation) /\ m \in Msg /\ In(control, m)
      /\ \A h : \A k \in Reports :
           /\ NotAfter(control, Message("exited", h), Message(k, h))
           /\ m = Message("exited", h)
           => ~In(control', Message(k, h))
  BY <1>1, Dequeue
<1>3. /\ m.kind = "exited" /\ m = Message("exited", sup.generation) /\ sup \in SupModel
      /\ running' = 0 /\ Kill /\ UNCHANGED <<frames, hold, reading>>
      /\ policy' = policy \/ Resets
      /\ sup.generation \in Nat /\ sup.crashes + 1 \in Nat
  BY <1>2, Contents DEF Exited, SupPart, SupTyped, SupModel, Resets, on_status
<1>4. Reported("exited") /\ ~Alive
  BY <1>2, <1>3 DEF SupPart, ReportsFit, Reported
<1>5. UNCHANGED child /\ core' = core /\ out' = out /\ ~Alive'
  BY <1>3, <1>4 DEF Kill, child, Alive
<1>6. /\ gone \in SupModel /\ gone.generation = sup.generation /\ gone.ready = sup.ready
      /\ gone.child = FALSE /\ gone.writer = FALSE /\ gone.grace = sup.grace
      /\ gone.shutting = sup.shutting /\ gone.incompatible = sup.incompatible
      /\ gone.own = sup.own
  BY <1>3 DEF SupModel
<1>7. PICK c \in Nat : c = sup.crashes + 1
  BY <1>3
<1>8. \/ sup' = gone /\ sup.shutting
      \/ sup' = [gone EXCEPT !.incompatible = FALSE, !.state = "failed"]
      \/ sup' = [gone EXCEPT !.state = "failed"] /\ ~sup.incompatible
      \/ sup' = [gone EXCEPT !.crashes = c, !.state = "failed"] /\ ~sup.incompatible
      \/ sup' = [gone EXCEPT !.crashes = c, !.state = "restarting"] /\ ~sup.incompatible
  <2>1. CASE sup.shutting
    BY <2>1 DEF Exited
  <2>2. CASE ~sup.shutting /\ sup.incompatible
    BY <2>2 DEF Exited
  <2>3. CASE ~sup.shutting /\ ~sup.incompatible /\ ~sup.ready
    BY <2>3 DEF Exited
  <2>4. CASE ~sup.shutting /\ ~sup.incompatible /\ sup.ready
    BY <1>7, <2>4 DEF Exited
  <2>5. QED
    BY <2>1, <2>2, <2>3, <2>4
<1> HIDE DEF gone
<1>9. /\ sup' \in SupModel /\ sup'.generation = sup.generation /\ sup'.ready = sup.ready
      /\ sup'.child = FALSE /\ sup'.writer = FALSE /\ sup'.grace = sup.grace
      /\ sup'.shutting = sup.shutting /\ sup'.own = sup.own
      /\ sup'.incompatible \in {FALSE, sup.incompatible}
      /\ ~sup'.shutting => ~sup'.incompatible
  <2>1. CASE sup' = gone /\ sup.shutting
    BY <1>6, <2>1
  <2>2. CASE sup' = [gone EXCEPT !.incompatible = FALSE, !.state = "failed"]
    BY <1>6, <2>2 DEF SupModel
  <2>3. CASE sup' = [gone EXCEPT !.state = "failed"] /\ ~sup.incompatible
    BY <1>6, <2>3 DEF SupModel
  <2>4. CASE /\ \/ sup' = [gone EXCEPT !.crashes = c, !.state = "failed"]
                \/ sup' = [gone EXCEPT !.crashes = c, !.state = "restarting"]
             /\ ~sup.incompatible
    BY <1>6, <1>7, <2>4 DEF SupModel
  <2>5. QED
    BY <1>8, <2>1, <2>2, <2>3, <2>4
<1>10. \A l \in Reports : ~Reported(l)'
  BY <1>2, <1>3, <1>9 DEF SupPart, ReportsFit, Reported
<1>11. ChildFits'
  BY <1>3, <1>5, <1>9 DEF ChildFits, RunningIsReady
<1>12. core' \in CoreStates
  BY <1>5 DEF SupPart, SupTyped
<1>13. SupPart'
  BY <1>2, <1>3, <1>4, <1>5, <1>9, <1>10, <1>11, <1>12, Handled
<1>14. QED
  BY <1>3, <1>5, <1>9, <1>13 DEF SameChild

LEMMA ShutdownOK ==
  ASSUME SupPart, control # <<>>, Shutdown(Head(control)), Stays
  PROVE  SupPart' /\ SameChild
<1>1. /\ sup \in SupModel /\ control' = Tail(control) /\ running' = 0
      /\ sup' = [sup EXCEPT !.shutting = TRUE, !.writer = FALSE, !.grace = sup.child,
                            !.state = IF sup.child THEN @ ELSE "stopped"]
      /\ UNCHANGED <<hold, reading, child>> /\ core' = core /\ out' = out
      /\ policy' = policy \/ (Resets /\ ~sup.child)
  BY DEF SupPart, SupTyped, Shutdown, child, Resets, on_status
<1>2. Leaves(sup.generation)
  BY <1>1, Dequeue
<1>3. /\ sup' \in SupModel /\ sup'.generation = sup.generation /\ sup'.ready = sup.ready
      /\ sup'.child = sup.child /\ sup'.writer = FALSE /\ sup'.grace = sup.child
      /\ sup'.shutting = TRUE /\ sup'.incompatible = sup.incompatible
      /\ sup'.own = sup.own
  <2>1. PICK st \in {"starting", "ready", "restarting", "failed", "stopped"} :
          st = IF sup.child THEN sup.state ELSE "stopped"
    BY <1>1 DEF SupModel
  <2>2. sup' = [sup EXCEPT !.shutting = TRUE, !.writer = FALSE, !.grace = sup.child,
                           !.state = st]
    BY <1>1, <2>1
  <2>3. QED
    BY <1>1, <2>2 DEF SupModel
<1>4. core' \in CoreStates /\ (Alive' <=> Alive)
  BY <1>1 DEF SupPart, SupTyped, Alive
<1>5. ChildFits'
  BY <1>1, <1>3, <1>4 DEF SupPart, ChildFits, RunningIsReady
<1>6. SupPart'
  BY <1>1, <1>2, <1>3, <1>4, <1>5, Handled
<1>7. \/ frames' = frames
      \/ frames' = Append(frames, Frame("shutdown", 0)) /\ Len(frames) < MaxQueued
  <2>1. CASE sup.writer
    <3>1. PICK s \in try_send(sup.generation, Frame("shutdown", 0)) :
            frames' = IF s = Failed THEN frames ELSE s
      BY <2>1 DEF Shutdown
    <3>2. QED
      BY <3>1, TrySend
  <2>2. CASE ~sup.writer
    BY <2>2 DEF Shutdown
  <2>3. QED
    BY <2>1, <2>2
<1>8. Alive' => LockComing'
  BY <1>3, <1>4 DEF LockComing, SupPart, ChildFits
<1>9. policy' = policy \/ (Resets /\ ~Alive')
  BY <1>1, <1>4 DEF SupPart, ChildFits
<1>10. QED
  BY <1>1, <1>3, <1>6, <1>7, <1>8, <1>9 DEF SameChild

LEMMA GraceOK ==
  ASSUME SupPart, GraceEnds
  PROVE  SupPart' /\ SameChild
<1>1. /\ sup \in SupModel /\ sup.grace /\ Kill
      /\ sup' = [sup EXCEPT !.grace = FALSE, !.child = FALSE, !.state = "stopped"]
      /\ UNCHANGED <<control, running, frames, hold, reading>> /\ Resets
  BY DEF GraceEnds, SupPart, SupTyped, Resets, on_status
<1>2. /\ sup' \in SupModel /\ sup'.generation = sup.generation /\ sup'.ready = sup.ready
      /\ sup'.child = FALSE /\ sup'.writer = sup.writer /\ sup'.grace = FALSE
      /\ sup'.shutting = sup.shutting /\ sup'.incompatible = sup.incompatible
      /\ sup'.own = sup.own
  BY <1>1 DEF SupModel
<1>3. /\ core' \in CoreStates /\ (core' = "starting" => core = "starting")
      /\ ~Alive' /\ out' \in {out, <<>>}
      /\ UNCHANGED child \/ (Alive /\ Ends(out))
  BY <1>1, Killed
<1>4. ~sup.writer /\ sup.shutting /\ running = 0
  BY <1>1 DEF SupPart, ChildFits, RunningIsReady
<1>5. Leaves(sup.generation)
  BY <1>1 DEF SupPart, SupTyped, ReportsFit, Leaves
<1>6. ChildFits'
  BY <1>1, <1>2, <1>3, <1>4 DEF ChildFits, RunningIsReady
<1>7. running' \in {0, sup.generation}
  BY <1>1, <1>4
<1>8. SupPart'
  BY <1>1, <1>2, <1>3, <1>4, <1>5, <1>6, <1>7, Handled
<1>9. QED
  BY <1>1, <1>2, <1>3, <1>8 DEF SameChild

\* The supervisor keeps a true picture of its child, whatever it handles next.
LEMMA SuperviseOK ==
  ASSUME SupPart, Supervise \/ GraceEnds
  PROVE  SupPart' /\ (SameChild \/ NewChild) /\ Stays
<1>1. CASE GraceEnds
  BY <1>1, GraceOK DEF GraceEnds
<1>2. CASE Supervise
  <2>1. /\ control # <<>> /\ ~sup.grace /\ Stays
        /\ \/ Start(Head(control)) \/ Ready(Head(control)) \/ ReadyTimeout(Head(control))
           \/ Exited(Head(control)) \/ Lock(Head(control)) \/ Shutdown(Head(control))
           \/ Ignored(Head(control))
    BY <1>2 DEF Supervise
  <2>2. QED
    BY <2>1, StartOK, ReadyOK, TimeoutOK, ExitedOK, LockOK, ShutdownOK, IgnoredOK
<1>3. QED
  BY <1>1, <1>2

-----------------------------------------------------------------------------
(***************************************************************************)
(* A request goes on.                                                      *)
(***************************************************************************)
\* What a step may do to a request: nothing, end it, put a new one to the ready
\* generation, or bring one further.
Moves(id) ==
  \/ req'[id] = req[id]
  \/ /\ req[id].state \notin {"done", "over"} /\ req'[id] \in RequestModel
     /\ req'[id].state = "over" /\ req'[id].epoch = 0
  \/ /\ req[id].state = "idle" /\ req'[id] \in RequestModel
     /\ req'[id].state = "registered" /\ sup.ready
     /\ req'[id].generation = sup.generation /\ req'[id].epoch = policy.epoch
  \/ /\ req[id].state \notin {"idle", "over", "done"} /\ req'[id] \in RequestModel
     /\ req'[id].state \in {"sent", "expired", "answered", "done"}
     /\ req'[id].generation = req[id].generation /\ req'[id].epoch = req[id].epoch

LEMMA OverFacts ==
  Over \in RequestModel /\ Over.state = "over" /\ Over.epoch = 0
<1>1. PICK b \in BOOLEAN : b = FALSE
  OBVIOUS
<1>2. NoRequest = [state |-> "idle", generation |-> 0, epoch |-> 0, session |-> b]
  BY <1>1 DEF NoRequest
<1>3. NoRequest \in RequestModel
  BY <1>2 DEF RequestModel
<1>4. QED
  BY <1>2, <1>3 DEF Over, RequestModel

LEMMA MovesFacts ==
  ASSUME SupPart, ReqPart, PolicyPart, NEW id \in Request, Moves(id)
  PROVE  /\ req'[id] \in RequestModel
         /\ req'[id].state \in {"idle", "registered"} => req[id].state \in {"idle", "registered"}
         /\ req[id].state = "over" => req'[id].state = "over"
         /\ req[id].state = "done" => req'[id] = req[id]
         /\ req'[id].state \notin {"idle", "over"} =>
              /\ req'[id].generation <= sup.generation
              /\ req'[id].generation = sup.generation => sup.ready
              /\ \/ /\ req'[id].epoch = policy.epoch
                    /\ req'[id].generation = sup.generation
                 \/ /\ req[id].state \notin {"idle", "over"}
                    /\ req'[id].generation = req[id].generation
                    /\ req'[id].epoch = req[id].epoch
         /\ req'[id].epoch <= policy.epoch
         /\ \/ req'[id].state = "over" \/ req[id].state = "idle"
            \/ req'[id].generation = req[id].generation
<1>1. /\ req[id] \in RequestModel /\ sup.generation \in Nat
      /\ policy.epoch \in Nat /\ req[id].epoch <= policy.epoch
      /\ req[id].state \notin {"idle", "over"} =>
           /\ req[id].generation <= sup.generation
           /\ req[id].generation = sup.generation => sup.ready
  BY DEF SupPart, SupTyped, SupModel, ReqPart, PolicyPart
<1>2. CASE req'[id] = req[id]
  BY <1>1, <1>2
<1>3. CASE /\ req[id].state \notin {"done", "over"} /\ req'[id] \in RequestModel
           /\ req'[id].state = "over" /\ req'[id].epoch = 0
  BY <1>1, <1>3
<1>4. CASE /\ req[id].state = "idle" /\ req'[id] \in RequestModel
           /\ req'[id].state = "registered" /\ sup.ready
           /\ req'[id].generation = sup.generation /\ req'[id].epoch = policy.epoch
  BY <1>1, <1>4
<1>5. CASE /\ req[id].state \notin {"idle", "over", "done"} /\ req'[id] \in RequestModel
           /\ req'[id].state \in {"sent", "expired", "answered", "done"}
           /\ req'[id].generation = req[id].generation /\ req'[id].epoch = req[id].epoch
  BY <1>1, <1>5
<1>6. QED
  BY <1>2, <1>3, <1>4, <1>5 DEF Moves

LEMMA ReqMoved ==
  ASSUME SupPart, ReqPart, PolicyPart, sup' = sup, DOMAIN req' = Request,
         req' = [id \in Request |-> req'[id]],
         \A id \in Request : Moves(id),
         waiting' \subseteq waiting \/ /\ Cardinality(waiting) < MaxWaiting
                                       /\ \E id \in Request : waiting' = waiting \union {id},
         \A id \in waiting' : req'[id].state \in {"registered", "sent", "expired"}
  PROVE  ReqPart'
<1>1. /\ waiting' \subseteq Request /\ IsFiniteSet(waiting')
      /\ Cardinality(waiting') <= MaxWaiting
  <2>1. /\ waiting \subseteq Request /\ IsFiniteSet(waiting)
        /\ Cardinality(waiting) <= MaxWaiting /\ MaxWaiting \in Nat
    BY DesktopCoreAssumption DEF ReqPart
  <2>2. CASE waiting' \subseteq waiting
    <3>1. /\ IsFiniteSet(waiting') /\ Cardinality(waiting') <= Cardinality(waiting)
          /\ Cardinality(waiting) \in Nat /\ Cardinality(waiting') \in Nat
      BY <2>1, <2>2, FS_Subset, FS_CardinalityType
    <3>2. QED
      BY <2>1, <2>2, <3>1
  <2>3. ASSUME Cardinality(waiting) < MaxWaiting, NEW id \in Request,
               waiting' = waiting \union {id}
        PROVE  /\ waiting' \subseteq Request /\ IsFiniteSet(waiting')
               /\ Cardinality(waiting') <= MaxWaiting
    <3>1. /\ IsFiniteSet(waiting') /\ Cardinality(waiting) \in Nat
          /\ \/ Cardinality(waiting') = Cardinality(waiting)
             \/ Cardinality(waiting') = Cardinality(waiting) + 1
      BY <2>1, <2>3, FS_AddElement, FS_CardinalityType
    <3>2. QED
      BY <2>1, <2>3, <3>1
  <2>4. QED
    BY <2>2, <2>3
<1>2. \A id \in Request :
        /\ req'[id] \in RequestModel
        /\ req'[id].state \notin {"idle", "over"} =>
             /\ req'[id].generation <= sup.generation
             /\ req'[id].generation = sup.generation => sup.ready
  BY MovesFacts
<1>3. req' \in [Request -> RequestModel]
  BY <1>2
<1>4. QED
  BY <1>1, <1>2, <1>3 DEF ReqPart

\* The requests wait while the supervisor goes on.
LEMMA ReqStays ==
  ASSUME SupPart, ReqPart, UNCHANGED <<req, waiting>>,
         \/ sup'.generation = sup.generation /\ (sup.ready => sup'.ready)
         \/ sup'.generation = sup.generation + 1
  PROVE  ReqPart'
<1>1. /\ sup.generation \in Nat
      /\ \A id \in Request : req[id].generation \in Nat
  BY DEF SupPart, SupTyped, SupModel, ReqPart, RequestModel
<1>2. ASSUME NEW id \in Request, req'[id].state \notin {"idle", "over"}
      PROVE  /\ req'[id].generation <= sup'.generation
             /\ req'[id].generation = sup'.generation => sup'.ready
  <2>1. /\ req[id].generation <= sup.generation
        /\ req[id].generation = sup.generation => sup.ready
    BY <1>2 DEF ReqPart
  <2>2. QED
    BY <1>1, <2>1
<1>3. QED
  BY <1>2 DEF ReqPart

-----------------------------------------------------------------------------
(***************************************************************************)
(* Where the frames are.                                                   *)
(***************************************************************************)
LEMMA QueuedIn ==
  /\ \A id : Queued(id) <=> In(frames, Frame("request", id))
  /\ \A id : Queued(id)' <=> In(frames', Frame("request", id))
BY DEF Queued, In

\* The shell puts a frame into the queue, or gives a request up.
LEMMA FramesMoved ==
  ASSUME SupPart, ReqPart, FramesPart, TaskPart, PolicyPart,
         \A id \in Request : Moves(id),
         UNCHANGED <<sup, core, hold, pipe, taken, keys>>,
         frames' \in Seq(Incoming), Len(frames') <= MaxQueued,
         \A id \in Request : Once(frames', Frame("request", id)),
         \A id \in Request : Queued(id)' =>
           \/ Queued(id)
           \/ /\ ~Posted(id) /\ req'[id].state \notin {"idle", "registered"}
              /\ Alive => /\ sup.ready
                          /\ req'[id].state = "over" \/ req'[id].generation = sup.generation,
         \A id \in unsent' : /\ id \in Request /\ req'[id].state = "over"
                             /\ id \in unsent \/ ~Posted(id)
  PROVE  FramesPart'
<1>1. \A id : Posted(id)' <=> Posted(id)
  BY DEF Posted
<1>2. Alive' <=> Alive
  BY DEF Alive
<1>3. ASSUME NEW id \in Request
      PROVE  /\ Queued(id)' => ~Posted(id)'
             /\ req'[id].state \in {"idle", "registered"} => ~Queued(id)' /\ ~Posted(id)'
             /\ Alive' /\ InCore(id)' =>
                  /\ sup'.ready
                  /\ req'[id].state = "over" \/ req'[id].generation = sup'.generation
  <2>1. /\ req'[id].state \in {"idle", "registered"} => req[id].state \in {"idle", "registered"}
        /\ req[id].state = "over" => req'[id].state = "over"
        /\ \/ req'[id].state = "over" \/ req[id].state = "idle"
           \/ req'[id].generation = req[id].generation
    BY MovesFacts
  <2>2. /\ Queued(id) => ~Posted(id)
        /\ req[id].state \in {"idle", "registered"} => ~Queued(id) /\ ~Posted(id)
        /\ Alive /\ (Queued(id) \/ Posted(id) \/ keys = id) =>
             /\ sup.ready
             /\ req[id].state = "over" \/ req[id].generation = sup.generation
    BY DEF FramesPart, InCore
  <2>3. keys = id => req[id].state \notin {"idle", "registered"}
    <3>1. 0 \notin Request
      BY DesktopCoreAssumption
    <3>2. QED
      BY <3>1 DEF TaskPart
  <2>4. InCore(id)' <=> (Queued(id)' \/ Posted(id) \/ keys = id)
    BY <1>1 DEF InCore
  <2>5. QED
    BY <1>1, <1>2, <2>1, <2>2, <2>3, <2>4
<1>4. ASSUME NEW id \in unsent'
      PROVE  id \in Request /\ req'[id].state = "over" /\ ~Posted(id)'
  BY <1>1 DEF FramesPart
<1>5. hold' \in Incoming \union {NoFrame} /\ pipe' \in Seq(Incoming)
  BY DEF FramesPart
<1>6. QED
  BY <1>3, <1>4, <1>5 DEF FramesPart

\* The writer and the core take frames; the requests stay as they are.
LEMMA FramesTaken ==
  ASSUME FramesPart, UNCHANGED <<req, unsent>>,
         sup'.generation = sup.generation, sup.ready => sup'.ready, Alive' => Alive,
         frames' \in Seq(Incoming), Len(frames') <= MaxQueued,
         hold' \in Incoming \union {NoFrame}, pipe' \in Seq(Incoming),
         \A id \in Request :
           /\ Once(frames', Frame("request", id))
           /\ Queued(id)' => Queued(id)
           /\ Posted(id)' => \/ Posted(id)
                             \/ Queued(id) /\ ~Queued(id)' /\ req[id].state # "over"
           /\ keys' = id => keys = id \/ Posted(id)
  PROVE  FramesPart'
<1>1. ASSUME NEW id \in Request
      PROVE  /\ Queued(id)' => ~Posted(id)'
             /\ req'[id].state \in {"idle", "registered"} => ~Queued(id)' /\ ~Posted(id)'
             /\ Alive' /\ InCore(id)' =>
                  /\ sup'.ready
                  /\ req'[id].state = "over" \/ req'[id].generation = sup'.generation
  <2>1. /\ Queued(id) => ~Posted(id)
        /\ req[id].state \in {"idle", "registered"} => ~Queued(id) /\ ~Posted(id)
        /\ Alive /\ (Queued(id) \/ Posted(id) \/ keys = id) =>
             /\ sup.ready
             /\ req[id].state = "over" \/ req[id].generation = sup.generation
    BY DEF FramesPart, InCore
  <2>2. InCore(id)' <=> (Queued(id)' \/ Posted(id)' \/ keys' = id)
    BY DEF InCore
  <2>3. QED
    BY <2>1, <2>2
<1>2. ASSUME NEW id \in unsent'
      PROVE  id \in Request /\ req'[id].state = "over" /\ ~Posted(id)'
  BY DEF FramesPart
<1>3. QED
  BY <1>1, <1>2 DEF FramesPart

-----------------------------------------------------------------------------
(***************************************************************************)
(* The core's tasks and the lock policy, where nothing is done to them.    *)
(***************************************************************************)
LEMMA TaskMoved ==
  ASSUME SupPart, ReqPart, TaskPart, PolicyPart, \A id \in Request : Moves(id),
         UNCHANGED <<core, pipe, task, keys, taken>>
  PROVE  TaskPart'
<1>1. ASSUME keys # 0 PROVE req'[keys].state \notin {"idle", "registered"}
  <2>1. keys \in Request /\ req[keys].state \notin {"idle", "registered"}
    BY <1>1 DEF TaskPart
  <2>2. QED
    BY <2>1, MovesFacts
<1>2. Alive' <=> Alive
  BY DEF Alive
<1>3. QED
  BY <1>1, <1>2 DEF TaskPart

\* No answer is looked at.
LEMMA PolicyMoved ==
  ASSUME SupPart, ReqPart, PolicyPart,
         \A id \in Request : Moves(id) /\ (req'[id].state = "done" => req[id].state = "done"),
         sup' = sup, policy' = policy, core' = core, LockComing => LockComing'
  PROVE  PolicyPart'
<1>1. Alive' <=> Alive
  BY DEF Alive
<1>2. ASSUME policy.deadline # 0
      PROVE  req'[policy.deadline].state = "done" /\ req'[policy.deadline].epoch = policy.epoch
  <2>1. /\ policy.deadline \in Request /\ req[policy.deadline].state = "done"
        /\ req[policy.deadline].epoch = policy.epoch
    BY <1>2 DEF PolicyPart
  <2>2. QED
    BY <2>1, MovesFacts
<1>3. ASSUME NEW id \in Request
      PROVE  /\ req'[id].epoch <= policy.epoch
             /\ req'[id].state = "done" /\ req'[id].session /\ req'[id].epoch = policy.epoch =>
                  policy.deadline # 0
             /\ req'[id].state \notin {"idle", "over"} /\ req'[id].epoch = policy.epoch =>
                  req'[id].generation = sup.generation
             /\ /\ Alive /\ req'[id].state \notin {"idle", "over"}
                /\ req'[id].generation = sup.generation /\ req'[id].epoch # policy.epoch
                => LockComing'
  <2>1. /\ req[id].state = "done" => req'[id] = req[id]
        /\ req'[id].state \notin {"idle", "over"} =>
             \/ req'[id].epoch = policy.epoch /\ req'[id].generation = sup.generation
             \/ /\ req[id].state \notin {"idle", "over"}
                /\ req'[id].generation = req[id].generation
                /\ req'[id].epoch = req[id].epoch
        /\ req'[id].epoch <= policy.epoch
    BY MovesFacts
  <2>2. QED
    BY <2>1 DEF PolicyPart
<1>4. QED
  BY <1>1, <1>2, <1>3 DEF PolicyPart

\* The supervisor, the writer and the core go on.
LEMMA PolicyStays ==
  ASSUME SupPart, ReqPart, PolicyPart, UNCHANGED <<req, policy>>,
         sup'.generation = sup.generation, Alive' => Alive,
         Alive' /\ sup.ready /\ LockComing => LockComing'
  PROVE  PolicyPart'
<1>1. ASSUME NEW id \in Request, Alive', req'[id].state \notin {"idle", "over"},
             req'[id].generation = sup'.generation, req'[id].epoch # policy'.epoch
      PROVE  LockComing'
  <2>1. sup.ready /\ LockComing
    BY <1>1 DEF ReqPart, PolicyPart
  <2>2. QED
    BY <1>1, <2>1
<1>2. QED
  BY <1>1 DEF PolicyPart

\* The policy's part, once every request is of an earlier epoch.
LEMMA NewEpoch ==
  ASSUME ReqPart, PolicyPart, req' = req, NEW n \in 1..2, NEW b \in BOOLEAN,
         policy' = [reset_renderer(n) EXCEPT !.locking = b],
         \A id \in Request : Alive' /\ req[id].state \notin {"idle", "over"}
           /\ req[id].generation = sup'.generation => LockComing'
  PROVE  PolicyPart'
<1>1. /\ policy \in [epoch : Nat, deadline : Request \union {0}, locking : BOOLEAN]
      /\ \A id \in Request : req[id].epoch \in Nat /\ req[id].epoch <= policy.epoch
  BY DEF PolicyPart, ReqPart, RequestModel
<1>2. PICK e \in Nat : e = policy.epoch + n /\ e > policy.epoch
  BY <1>1
<1>3. policy' = [policy EXCEPT !.epoch = e, !.deadline = 0, !.locking = b]
  BY <1>1, <1>2 DEF reset_renderer
<1>4. /\ policy' \in [epoch : Nat, deadline : Request \union {0}, locking : BOOLEAN]
      /\ policy'.epoch = e /\ policy'.deadline = 0
  BY <1>1, <1>3
<1>5. \A id \in Request : req'[id].epoch <= policy'.epoch /\ req'[id].epoch # policy'.epoch
  BY <1>1, <1>2, <1>4
<1>6. QED
  BY <1>4, <1>5 DEF PolicyPart

\* A status that is not "ready" was shown, of a core that is gone or new.
LEMMA PolicyReset ==
  ASSUME SupPart, ReqPart, PolicyPart, req' = req, Resets,
         ~Alive' \/ sup'.generation = sup.generation + 1
  PROVE  PolicyPart'
<1>1. PICK n \in 1..2 : policy' = reset_renderer(n)
  BY DEF Resets
<1>2. PICK b \in BOOLEAN : b = policy.locking
  BY DEF PolicyPart
<1>3. policy' = [reset_renderer(n) EXCEPT !.locking = b]
  BY <1>1, <1>2 DEF reset_renderer, PolicyPart
<1>4. ASSUME NEW id \in Request, Alive', req[id].state \notin {"idle", "over"},
             req[id].generation = sup'.generation
      PROVE  FALSE
  <2>1. /\ req[id].generation <= sup.generation /\ req[id].generation \in Nat
        /\ sup.generation \in Nat
    BY <1>4 DEF SupPart, SupTyped, SupModel, ReqPart, RequestModel
  <2>2. QED
    BY <1>4, <2>1
<1>5. QED
  BY <1>3, <1>4, NewEpoch

LEMMA ComingSame ==
  ASSUME UNCHANGED <<policy, sup, control>>
  PROVE  LockComing' <=> LockComing
BY DEF LockComing

-----------------------------------------------------------------------------
(***************************************************************************)
(* The actions of the requests.                                            *)
(***************************************************************************)
\* One request changes; the frames do not.
LEMMA OneMoves ==
  ASSUME IInv, NEW id \in Request, NEW r \in RequestModel, req' = [req EXCEPT ![id] = r],
         Moves(id), r.state # "done",
         UNCHANGED <<sup, control, running, frames, hold, reading, child, policy, unsent>>,
         ReqPart'
  PROVE  IInv'
<1>1. req' \in [Request -> RequestModel] /\ \A i \in Request : i # id => req'[i] = req[i]
  BY DEF IInv, ReqPart
<1>2. \A i \in Request : Moves(i)
  BY <1>1 DEF Moves
<1>3. UNCHANGED <<core, pipe, task, out, keys, taken>>
  BY DEF child
<1>4. req'[id] = r
  BY DEF IInv, ReqPart
<1>5. SupPart'
  BY <1>3, SupSame DEF IInv
<1>6. FramesPart'
  <2>1. \A i : Queued(i)' <=> Queued(i)
    BY DEF Queued
  <2>2. \A i \in unsent' : /\ i \in Request /\ req'[i].state = "over" /\ i \in unsent
    <3>1. \A i \in unsent : i \in Request /\ req[i].state = "over"
      BY DEF IInv, FramesPart
    <3>2. QED
      BY <1>2, <3>1, MovesFacts DEF IInv
  <2>3. QED
    BY <1>2, <1>3, <2>1, <2>2, FramesMoved DEF IInv, FramesPart
<1>7. TaskPart'
  BY <1>2, <1>3, TaskMoved DEF IInv
<1>8. PolicyPart'
  BY <1>1, <1>2, <1>3, <1>4, PolicyMoved, ComingSame DEF IInv
<1>9. QED
  BY <1>5, <1>6, <1>7, <1>8 DEF IInv

LEMMA AskOK ==
  ASSUME IInv, NEW id \in Request, Ask(id)
  PROVE  IInv'
<1>1. /\ req[id].state = "idle" /\ running # 0 /\ running = sup.generation /\ sup.ready
      /\ running \in Nat /\ policy.epoch \in Nat
      /\ UNCHANGED <<sup, control, running, frames, hold, reading, child, policy, unsent>>
      /\ waiting \subseteq Request /\ IsFiniteSet(waiting)
      /\ \A i \in waiting : req[i].state \in {"registered", "sent", "expired"}
      /\ req \in [Request -> RequestModel]
      /\ SupPart /\ ReqPart /\ PolicyPart /\ sup' = sup
  BY DEF IInv, SupPart, SupTyped, SupModel, ChildFits, RunningIsReady, PolicyPart, ReqPart, Ask
<1>2. CASE running \in closed \/ Cardinality(waiting) >= MaxWaiting
  <2>1. req' = [req EXCEPT ![id] = Over] /\ waiting' = waiting
    BY <1>2 DEF Ask
  <2>2. Moves(id)
    BY <1>1, <2>1, OverFacts DEF Moves
  <2>3. /\ DOMAIN req' = Request /\ req' = [i \in Request |-> req'[i]]
        /\ \A i \in Request : i # id => req'[i] = req[i]
    BY <1>1, <2>1
  <2>4. \A i \in Request : Moves(i)
    BY <2>2, <2>3 DEF Moves
  <2>5. \A i \in waiting' : req'[i].state \in {"registered", "sent", "expired"}
    BY <1>1, <2>1, <2>3
  <2>6. ReqPart'
    BY <1>1, <2>1, <2>3, <2>4, <2>5, ReqMoved
  <2>7. QED
    BY <1>1, <2>1, <2>2, <2>6, OverFacts, OneMoves
<1>3. CASE ~(running \in closed \/ Cardinality(waiting) >= MaxWaiting)
  <2>1. PICK b \in BOOLEAN : b = FALSE
    OBVIOUS
  <2>2. PICK r : r = [state |-> "registered", generation |-> running,
                      epoch |-> policy.epoch, session |-> b]
    OBVIOUS
  <2>3. /\ r \in RequestModel /\ r.state = "registered" /\ r.generation = running
        /\ r.epoch = policy.epoch
    BY <1>1, <2>2 DEF RequestModel
  <2>4. req' = [req EXCEPT ![id] = r] /\ waiting' = waiting \union {id}
    BY <1>3, <2>1, <2>2 DEF Ask
  <2>5. /\ DOMAIN req' = Request /\ req' = [i \in Request |-> req'[i]] /\ req'[id] = r
        /\ \A i \in Request : i # id => req'[i] = req[i]
    BY <1>1, <2>4
  <2>6. Moves(id)
    BY <1>1, <2>3, <2>5 DEF Moves
  <2>7. \A i \in Request : Moves(i)
    BY <2>5, <2>6 DEF Moves
  <2>8. \A i \in waiting' : req'[i].state \in {"registered", "sent", "expired"}
    BY <1>1, <2>3, <2>4, <2>5
  <2>9. Cardinality(waiting) < MaxWaiting
    <3>1. Cardinality(waiting) \in Nat /\ MaxWaiting \in Nat
      BY <1>1, FS_CardinalityType, DesktopCoreAssumption
    <3>2. QED
      BY <1>3, <3>1
  <2>10. ReqPart'
    BY <1>1, <2>4, <2>5, <2>7, <2>8, <2>9, ReqMoved
  <2>11. QED
    BY <1>1, <2>3, <2>4, <2>6, <2>10, OneMoves
<1>4. QED
  BY <1>2, <1>3

LEMMA ExpireOK ==
  ASSUME IInv, NEW id \in Request, Expire(id)
  PROVE  IInv'
<1>1. /\ req[id].state = "sent" /\ req' = [req EXCEPT ![id].state = "expired"]
      /\ waiting' = waiting /\ sup' = sup
      /\ UNCHANGED <<sup, control, running, frames, hold, reading, child, policy, unsent>>
      /\ req \in [Request -> RequestModel]
      /\ \A i \in waiting : req[i].state \in {"registered", "sent", "expired"}
      /\ SupPart /\ ReqPart /\ PolicyPart /\ waiting \subseteq Request
  BY DEF Expire, Set, IInv, ReqPart
<1>2. PICK r : r = [req[id] EXCEPT !.state = "expired"]
  OBVIOUS
<1>3. /\ r \in RequestModel /\ r.state = "expired"
      /\ r.generation = req[id].generation /\ r.epoch = req[id].epoch
  BY <1>1, <1>2 DEF RequestModel
<1>4. req' = [req EXCEPT ![id] = r]
  BY <1>1, <1>2
<1>5. /\ DOMAIN req' = Request /\ req' = [i \in Request |-> req'[i]] /\ req'[id] = r
      /\ \A i \in Request : i # id => req'[i] = req[i]
  BY <1>1, <1>4
<1>6. Moves(id)
  BY <1>1, <1>3, <1>5 DEF Moves
<1>7. \A i \in Request : Moves(i)
  BY <1>5, <1>6 DEF Moves
<1>8. \A i \in waiting' : req'[i].state \in {"registered", "sent", "expired"}
  BY <1>1, <1>3, <1>5
<1>9. ReqPart'
  BY <1>1, <1>5, <1>7, <1>8, ReqMoved
<1>10. QED
  BY <1>1, <1>3, <1>4, <1>6, <1>9, OneMoves

\* A step of a request that may queue a frame, or ask for a lock.
LEMMA RequestStep ==
  ASSUME IInv, SupPart', ReqPart', UNCHANGED <<sup, hold, child, policy>>,
         \A id \in Request : Moves(id) /\ (req'[id].state = "done" => req[id].state = "done"),
         LockComing => LockComing',
         frames' \in Seq(Incoming), Len(frames') <= MaxQueued,
         \A id \in Request : Once(frames', Frame("request", id)),
         \A id \in Request : Queued(id)' =>
           \/ Queued(id)
           \/ /\ ~Posted(id) /\ req'[id].state \notin {"idle", "registered"}
              /\ Alive => /\ sup.ready
                          /\ req'[id].state = "over" \/ req'[id].generation = sup.generation,
         \A id \in unsent' : \/ id \in unsent
                             \/ id \in Request /\ req'[id].state = "over" /\ ~Posted(id)
  PROVE  IInv'
<1>1. UNCHANGED <<core, pipe, task, out, keys, taken>>
  BY DEF child
<1>2. \A id \in unsent' : /\ id \in Request /\ req'[id].state = "over"
                          /\ id \in unsent \/ ~Posted(id)
  <2>1. \A id \in unsent : id \in Request /\ req[id].state = "over"
    BY DEF IInv, FramesPart
  <2>2. \A id \in Request : req[id].state = "over" => req'[id].state = "over"
    BY MovesFacts DEF IInv
  <2>3. QED
    BY <2>1, <2>2
<1>3. FramesPart'
  BY <1>1, <1>2, FramesMoved DEF IInv
<1>4. TaskPart'
  BY <1>1, TaskMoved DEF IInv
<1>5. PolicyPart'
  BY <1>1, PolicyMoved DEF IInv
<1>6. QED
  BY <1>3, <1>4, <1>5 DEF IInv

\* A frame is put at the end of the writer's queue.
LEMMA FrameAdded ==
  ASSUME FramesPart, NEW f \in Incoming, frames' = Append(frames, f),
         Len(frames) < MaxQueued, f.kind = "request" => ~Queued(f.id)
  PROVE  /\ frames' \in Seq(Incoming) /\ Len(frames') <= MaxQueued
         /\ \A id \in Request : Once(frames', Frame("request", id))
         /\ \A id \in Request : Queued(id)' => Queued(id) \/ f = Frame("request", id)
<1>1. /\ frames \in Seq(Incoming) /\ MaxQueued \in Nat
      /\ \A id \in Request : Once(frames, Frame("request", id))
  BY DesktopCoreAssumption DEF FramesPart
<1>2. /\ frames' \in Seq(Incoming) /\ Len(frames') = Len(frames) + 1 /\ Len(frames) \in Nat
      /\ \A x : In(frames', x) <=> (x = f \/ In(frames, x))
      /\ \A x : Once(frames, x) /\ (x = f => ~In(frames, x)) => Once(frames', x)
  BY <1>1, AppendFacts
<1>3. ASSUME NEW id \in Request, Frame("request", id) = f PROVE ~In(frames, Frame("request", id))
  <2>1. f.kind = "request" /\ f.id = id
    BY <1>3, Columns
  <2>2. QED
    BY <2>1, QueuedIn
<1>4. QED
  BY <1>1, <1>2, <1>3, QueuedIn

LEMMA CancelFacts ==
  ASSUME IInv, NEW g, NEW id \in Request, CancelOrLock(g, id),
         UNCHANGED <<sup, out, core, reading, running, policy>>
  PROVE  /\ SupPart' /\ (LockComing => LockComing')
         /\ frames' \in Seq(Incoming) /\ Len(frames') <= MaxQueued
         /\ \A i \in Request : Once(frames', Frame("request", i))
         /\ \A i \in Request : Queued(i)' => Queued(i)
<1>1. PICK s \in try_send(g, Frame("cancel", id)) :
        IF s = Failed
        THEN control' = Append(control, Message("lock", 0)) /\ UNCHANGED frames
        ELSE frames' = s /\ UNCHANGED control
  BY DEF CancelOrLock
<1>2. ASSUME frames' = frames
      PROVE  /\ frames' \in Seq(Incoming) /\ Len(frames') <= MaxQueued
             /\ \A i \in Request : Once(frames', Frame("request", i))
             /\ \A i \in Request : Queued(i)' => Queued(i)
  BY <1>2 DEF IInv, FramesPart, Queued
<1>3. ASSUME control' = control PROVE SupPart' /\ (LockComing => LockComing')
  BY <1>3, SupSame, ComingSame DEF IInv
<1>4. CASE s = Failed
  <2>1. control' = Append(control, Message("lock", 0)) /\ frames' = frames
    BY <1>1, <1>4
  <2>2. SupPart' /\ In(control', Message("lock", 0))
    <3>1. 0 \in 0..sup.generation
      BY DEF IInv, SupPart, SupTyped, SupModel
    <3>2. QED
      BY <2>1, <3>1, Enqueue DEF IInv
  <2>3. QED
    BY <1>2, <2>1, <2>2 DEF LockComing
<1>5. CASE s # Failed
  <2>1. frames' = s /\ control' = control
    BY <1>1, <1>5
  <2>2. CASE s = frames
    BY <1>2, <1>3, <2>1, <2>2
  <2>3. CASE s = Append(frames, Frame("cancel", id)) /\ Len(frames) < MaxQueued
    <3>1. /\ Frame("cancel", id) \in Incoming /\ Frame("cancel", id).kind = "cancel"
          /\ \A i : Frame("request", i).kind = "request"
      BY Columns DEF Incoming
    <3>2. /\ frames' \in Seq(Incoming) /\ Len(frames') <= MaxQueued
          /\ \A i \in Request : Once(frames', Frame("request", i))
          /\ \A i \in Request : Queued(i)' => Queued(i) \/ Frame("cancel", id) = Frame("request", i)
      BY <2>1, <2>3, <3>1, FrameAdded DEF IInv
    <3>3. QED
      BY <1>3, <2>1, <3>1, <3>2
  <2>4. QED
    BY <1>1, <1>5, <2>2, <2>3, TrySend
<1>6. QED
  BY <1>4, <1>5

LEMMA AbandonOK ==
  ASSUME IInv, NEW id \in Request, Abandon(id)
  PROVE  IInv'
<1>1. /\ req[id].state = "expired" /\ req' = [req EXCEPT ![id] = Over]
      /\ waiting' = waiting \ {id} /\ sup' = sup
      /\ UNCHANGED <<sup, running, hold, reading, child, policy>>
      /\ CancelOrLock(req[id].generation, id)
      /\ unsent' = IF Queued(id) THEN unsent \union {id} ELSE unsent
      /\ req \in [Request -> RequestModel]
      /\ \A i \in waiting : req[i].state \in {"registered", "sent", "expired"}
      /\ SupPart /\ ReqPart /\ PolicyPart /\ waiting \subseteq Request
  BY DEF Abandon, IInv, ReqPart
<1>2. UNCHANGED <<core, out>>
  BY <1>1 DEF child
<1>3. /\ DOMAIN req' = Request /\ req' = [i \in Request |-> req'[i]] /\ req'[id] = Over
      /\ \A i \in Request : i # id => req'[i] = req[i]
  BY <1>1
<1>4. Moves(id) /\ req'[id].state = "over"
  BY <1>1, <1>3, OverFacts DEF Moves
<1>5. \A i \in Request : Moves(i)
  BY <1>3, <1>4 DEF Moves
<1>6. \A i \in waiting' : req'[i].state \in {"registered", "sent", "expired"}
  BY <1>1, <1>3
<1>7. ReqPart'
  BY <1>1, <1>3, <1>5, <1>6, ReqMoved
<1>8. /\ SupPart' /\ (LockComing => LockComing')
      /\ frames' \in Seq(Incoming) /\ Len(frames') <= MaxQueued
      /\ \A i \in Request : Once(frames', Frame("request", i))
      /\ \A i \in Request : Queued(i)' => Queued(i)
  BY <1>1, <1>2, CancelFacts
<1>9. \A i \in unsent' : \/ i \in unsent
                         \/ i \in Request /\ req'[i].state = "over" /\ ~Posted(i)
  <2>1. Queued(id) => ~Posted(id)
    BY DEF IInv, FramesPart
  <2>2. QED
    BY <1>1, <1>4, <2>1
<1>10. \A i \in Request : req'[i].state = "done" => req[i].state = "done"
  BY <1>3, <1>4
<1>11. QED
  BY <1>1, <1>5, <1>7, <1>8, <1>9, <1>10, RequestStep

LEMMA CancelOK ==
  ASSUME IInv, NEW id \in Request, cancel(id)
  PROVE  IInv'
<1>1. /\ CancelOrLock(running, id)
      /\ UNCHANGED <<sup, running, req, waiting, hold, reading, child, policy, unsent>>
  BY DEF cancel
<1>2. UNCHANGED <<core, out>>
  BY <1>1 DEF child
<1>3. \A i \in Request : Moves(i)
  BY <1>1 DEF Moves
<1>4. ReqPart'
  BY <1>1, ReqStays DEF IInv
<1>5. /\ SupPart' /\ (LockComing => LockComing')
      /\ frames' \in Seq(Incoming) /\ Len(frames') <= MaxQueued
      /\ \A i \in Request : Once(frames', Frame("request", i))
      /\ \A i \in Request : Queued(i)' => Queued(i)
  BY <1>1, <1>2, CancelFacts
<1>6. QED
  BY <1>1, <1>3, <1>4, <1>5, RequestStep

LEMMA QueueOK ==
  ASSUME IInv, NEW id \in Request, Queue(id)
  PROVE  IInv'
<1>1. /\ req[id].state = "registered" /\ sup' = sup
      /\ UNCHANGED <<sup, control, running, hold, reading, child, policy, unsent>>
      /\ req \in [Request -> RequestModel]
      /\ \A i \in waiting : req[i].state \in {"registered", "sent", "expired"}
      /\ SupPart /\ ReqPart /\ PolicyPart /\ waiting \subseteq Request
      /\ ~Queued(id) /\ ~Posted(id)
      /\ req[id].generation = sup.generation => sup.ready
  BY DEF Queue, IInv, ReqPart, FramesPart
<1>2. PICK s \in try_send(req[id].generation, Frame("request", id)) :
        IF s = Failed
        THEN /\ req' = [req EXCEPT ![id] = Over] /\ waiting' = waiting \ {id}
             /\ UNCHANGED frames
        ELSE /\ req' = IF id \in waiting THEN Set(id, "sent") ELSE [req EXCEPT ![id] = Over]
             /\ frames' = s /\ UNCHANGED waiting
  BY DEF Queue
<1>3. PICK r \in RequestModel :
        /\ req' = [req EXCEPT ![id] = r]
        /\ \/ r.state = "over" /\ r.epoch = 0 /\ id \notin waiting'
           \/ r.state = "sent" /\ r.generation = req[id].generation /\ r.epoch = req[id].epoch
  <2>1. CASE s = Failed \/ id \notin waiting
    <3>1. req' = [req EXCEPT ![id] = Over] /\ id \notin waiting'
      BY <1>2, <2>1
    <3>2. QED
      BY <3>1, OverFacts
  <2>2. CASE s # Failed /\ id \in waiting
    <3>1. req' = [req EXCEPT ![id].state = "sent"]
      BY <1>2, <2>2 DEF Set
    <3>2. PICK r : r = [req[id] EXCEPT !.state = "sent"]
      OBVIOUS
    <3>3. /\ r \in RequestModel /\ r.state = "sent"
          /\ r.generation = req[id].generation /\ r.epoch = req[id].epoch
      BY <1>1, <3>2 DEF RequestModel
    <3>4. req' = [req EXCEPT ![id] = r]
      BY <3>1, <3>2
    <3>5. QED
      BY <3>3, <3>4
  <2>3. QED
    BY <2>1, <2>2
<1>4. /\ DOMAIN req' = Request /\ req' = [i \in Request |-> req'[i]] /\ req'[id] = r
      /\ \A i \in Request : i # id => req'[i] = req[i]
  BY <1>1, <1>3
<1>5. Moves(id)
  BY <1>1, <1>3, <1>4 DEF Moves
<1>6. \A i \in Request : Moves(i)
  BY <1>4, <1>5 DEF Moves
<1>7. waiting' \subseteq waiting
  BY <1>2
<1>8. \A i \in waiting' : req'[i].state \in {"registered", "sent", "expired"}
  BY <1>1, <1>3, <1>4, <1>7
<1>9. ReqPart'
  BY <1>1, <1>4, <1>6, <1>7, <1>8, ReqMoved
<1>10. SupPart' /\ (LockComing => LockComing')
  <2>1. UNCHANGED <<sup, control, out, core, reading, running, policy>>
    BY <1>1 DEF child
  <2>2. QED
    BY <1>1, <2>1, SupSame, ComingSame
<1>11. /\ frames' \in Seq(Incoming) /\ Len(frames') <= MaxQueued
       /\ \A i \in Request : Once(frames', Frame("request", i))
       /\ \A i \in Request : Queued(i)' =>
            Queued(i) \/ (i = id /\ req[id].generation = sup.generation)
  <2>1. CASE frames' = frames
    BY <2>1 DEF IInv, FramesPart, Queued
  <2>2. CASE /\ frames' = Append(frames, Frame("request", id)) /\ Len(frames) < MaxQueued
             /\ req[id].generation = sup.generation
    <3>1. /\ Frame("request", id) \in Incoming /\ Frame("request", id).kind = "request"
          /\ \A i : Frame("request", i).id = i
      BY Columns DEF Incoming
    <3>2. /\ frames' \in Seq(Incoming) /\ Len(frames') <= MaxQueued
          /\ \A i \in Request : Once(frames', Frame("request", i))
          /\ \A i \in Request : Queued(i)' =>
               Queued(i) \/ Frame("request", id) = Frame("request", i)
      BY <1>1, <2>2, <3>1, FrameAdded DEF IInv
    <3>3. QED
      BY <2>2, <3>1, <3>2
  <2>3. QED
    BY <1>2, <2>1, <2>2, TrySend
<1>12. \A i \in Request : Queued(i)' =>
         \/ Queued(i)
         \/ /\ ~Posted(i) /\ req'[i].state \notin {"idle", "registered"}
            /\ Alive => /\ sup.ready
                        /\ req'[i].state = "over" \/ req'[i].generation = sup.generation
  BY <1>1, <1>3, <1>4, <1>11
<1>13. \A i \in Request : req'[i].state = "done" => req[i].state = "done"
  BY <1>3, <1>4
<1>14. QED
  BY <1>1, <1>6, <1>9, <1>10, <1>11, <1>12, <1>13, RequestStep

LEMMA ObserveOK ==
  ASSUME IInv, NEW id \in Request, Observe(id)
  PROVE  IInv'
<1>1. /\ req[id].state = "answered" /\ req' = [req EXCEPT ![id].state = "done"]
      /\ policy' = observe(id) /\ waiting' = waiting /\ sup' = sup /\ unsent' = unsent
      /\ UNCHANGED <<sup, control, running, frames, hold, reading, child>>
      /\ req \in [Request -> RequestModel]
      /\ \A i \in waiting : req[i].state \in {"registered", "sent", "expired"}
      /\ SupPart /\ ReqPart /\ FramesPart /\ TaskPart /\ PolicyPart /\ waiting \subseteq Request
  BY DEF Observe, Set, IInv, ReqPart
<1>2. UNCHANGED <<core, pipe, task, out, keys, taken>>
  BY <1>1 DEF child
<1>3. PICK r : r = [req[id] EXCEPT !.state = "done"]
  OBVIOUS
<1>4. /\ r \in RequestModel /\ r.state = "done" /\ r.session = req[id].session
      /\ r.generation = req[id].generation /\ r.epoch = req[id].epoch
  BY <1>1, <1>3 DEF RequestModel
<1>5. /\ DOMAIN req' = Request /\ req' = [i \in Request |-> req'[i]] /\ req'[id] = r
      /\ \A i \in Request : i # id => req'[i] = req[i]
  BY <1>1, <1>3
<1>6. \A i \in Request : Moves(i)
  BY <1>1, <1>4, <1>5 DEF Moves
<1>7. \A i \in waiting' : req'[i].state \in {"registered", "sent", "expired"}
  BY <1>1, <1>5
<1>8. ReqPart'
  BY <1>1, <1>5, <1>6, <1>7, ReqMoved
<1>9. SupPart'
  BY <1>1, <1>2, SupSame
<1>10. FramesPart'
  <2>1. \A i : Queued(i)' <=> Queued(i)
    BY <1>1 DEF Queued
  <2>2. \A i \in unsent' : i \in Request /\ req'[i].state = "over" /\ i \in unsent
    BY <1>1, <1>5 DEF FramesPart
  <2>3. /\ frames' \in Seq(Incoming) /\ Len(frames') <= MaxQueued
        /\ \A i \in Request : Once(frames', Frame("request", i))
    BY <1>1 DEF FramesPart
  <2>4. QED
    BY <1>1, <1>2, <1>6, <2>1, <2>2, <2>3, FramesMoved
<1>11. TaskPart'
  BY <1>1, <1>2, <1>6, TaskMoved
<1>12. /\ policy \in [epoch : Nat, deadline : Request \union {0}, locking : BOOLEAN]
       /\ policy' \in [epoch : Nat, deadline : Request \union {0}, locking : BOOLEAN]
       /\ policy'.epoch = policy.epoch /\ policy'.locking = policy.locking
       /\ policy'.deadline = IF req[id].session /\ req[id].epoch = policy.epoch
                             THEN id ELSE policy.deadline
  BY <1>1 DEF observe, PolicyPart
<1>13. PolicyPart'
  <2>1. 0 \notin Request
    BY DesktopCoreAssumption
  <2>2. ASSUME policy'.deadline # 0
        PROVE  /\ req'[policy'.deadline].state = "done"
               /\ req'[policy'.deadline].epoch = policy'.epoch
    BY <1>1, <1>4, <1>5, <1>12, <2>2 DEF PolicyPart
  <2>3. LockComing' <=> LockComing
    BY <1>1, <1>12 DEF LockComing
  <2>4. Alive' <=> Alive
    BY <1>2 DEF Alive
  <2>5. ASSUME NEW i \in Request
        PROVE  /\ req'[i].epoch <= policy'.epoch
               /\ req'[i].state = "done" /\ req'[i].session /\ req'[i].epoch = policy'.epoch =>
                    policy'.deadline # 0
               /\ req'[i].state \notin {"idle", "over"} /\ req'[i].epoch = policy'.epoch =>
                    req'[i].generation = sup'.generation
               /\ /\ Alive' /\ req'[i].state \notin {"idle", "over"}
                  /\ req'[i].generation = sup'.generation /\ req'[i].epoch # policy'.epoch
                  => LockComing'
    <3>1. CASE i = id
      BY <1>1, <1>4, <1>5, <1>12, <2>1, <2>3, <2>4, <3>1 DEF PolicyPart
    <3>2. CASE i # id
      BY <1>1, <1>5, <1>12, <2>1, <2>3, <2>4, <3>2 DEF PolicyPart
    <3>3. QED
      BY <3>1, <3>2
  <2>6. QED
    BY <1>12, <2>2, <2>5 DEF PolicyPart
<1>14. QED
  BY <1>8, <1>9, <1>10, <1>11, <1>13 DEF IInv

-----------------------------------------------------------------------------
(***************************************************************************)
(* The lock policy, and who else sends the supervisor messages.            *)
(***************************************************************************)
LEMMA StillStep ==
  ASSUME IInv, UNCHANGED <<sup, req, waiting, frames, hold, child, unsent>>,
         SupPart', PolicyPart'
  PROVE  IInv'
<1>1. UNCHANGED <<core, pipe, task, out, keys, taken>> /\ \A id \in Request : Moves(id)
  BY DEF child, Moves
<1>2. ReqPart'
  BY ReqStays DEF IInv
<1>3. TaskPart'
  BY <1>1, TaskMoved DEF IInv
<1>4. FramesPart'
  <2>1. \A i : (Queued(i)' <=> Queued(i)) /\ (Posted(i)' <=> Posted(i))
    BY <1>1 DEF Queued, Posted
  <2>2. Alive' <=> Alive
    BY <1>1 DEF Alive
  <2>3. /\ frames' \in Seq(Incoming) /\ Len(frames') <= MaxQueued
        /\ hold' \in Incoming \union {NoFrame} /\ pipe' \in Seq(Incoming)
        /\ \A i \in Request : Once(frames', Frame("request", i))
    BY <1>1 DEF IInv, FramesPart
  <2>4. QED
    BY <1>1, <2>1, <2>2, <2>3, FramesTaken DEF IInv
<1>5. QED
  BY <1>2, <1>3, <1>4 DEF IInv

LEMMA BeginLockOK ==
  ASSUME IInv, BeginLock
  PROVE  IInv'
<1>1. /\ policy' = [reset_renderer(1) EXCEPT !.locking = TRUE]
      /\ UNCHANGED <<sup, control, running, req, waiting, frames, hold, reading, child, unsent>>
  BY DEF BeginLock, shell
<1>2. UNCHANGED <<core, out>>
  BY <1>1 DEF child
<1>3. SupPart'
  BY <1>1, <1>2, SupSame DEF IInv
<1>4. PICK b \in BOOLEAN : b = TRUE
  OBVIOUS
<1>5. policy' = [reset_renderer(1) EXCEPT !.locking = b]
  BY <1>1, <1>4
<1>6. LockComing'
  BY <1>4, <1>5 DEF LockComing, reset_renderer, IInv, PolicyPart
<1>7. PolicyPart'
  <2>1. 1 \in 1..2 /\ req' = req
    BY <1>1
  <2>2. QED
    BY <1>5, <1>6, <2>1, NewEpoch DEF IInv
<1>8. QED
  BY <1>1, <1>3, <1>7, StillStep

LEMMA LockAsked ==
  ASSUME IInv, lock
  PROVE  IInv'
<1>1. /\ policy' = [policy EXCEPT !.locking = FALSE]
      /\ control' = Append(control, Message("lock", 0))
      /\ UNCHANGED <<sup, running, req, waiting, frames, hold, reading, child, unsent>>
      /\ policy \in [epoch : Nat, deadline : Request \union {0}, locking : BOOLEAN]
  BY DEF lock, IInv, PolicyPart
<1>2. UNCHANGED <<core, out>> /\ 0 \in 0..sup.generation
  BY <1>1 DEF child, IInv, SupPart, SupTyped, SupModel
<1>3. SupPart' /\ In(control', Message("lock", 0))
  BY <1>1, <1>2, Enqueue DEF IInv
<1>4. /\ policy' \in [epoch : Nat, deadline : Request \union {0}, locking : BOOLEAN]
      /\ policy'.epoch = policy.epoch /\ policy'.deadline = policy.deadline
  BY <1>1
<1>5. LockComing'
  BY <1>3 DEF LockComing
<1>6. PolicyPart'
  BY <1>1, <1>4, <1>5 DEF IInv, PolicyPart
<1>7. QED
  BY <1>1, <1>3, <1>6, StillStep

LEMMA SentOK ==
  ASSUME IInv, NEW k \in {"start", "timer", "lock", "shutdown"}, NEW g \in 0..sup.generation,
         control' = Append(control, Message(k, g)),
         UNCHANGED <<sup, running, req, waiting, frames, hold, reading, child, policy, unsent>>
  PROVE  IInv'
<1>1. UNCHANGED <<core, out>>
  BY DEF child
<1>2. SupPart' /\ \A l : In(control, Message(l, 0)) => In(control', Message(l, 0))
  BY <1>1, Enqueue DEF IInv
<1>3. LockComing => LockComing'
  BY <1>2 DEF LockComing
<1>4. Alive' => Alive
  BY <1>1 DEF Alive
<1>5. PolicyPart'
  BY <1>3, <1>4, PolicyStays DEF IInv
<1>6. QED
  BY <1>2, <1>5, StillStep

-----------------------------------------------------------------------------
(***************************************************************************)
(* The writer and the reader.                                              *)
(***************************************************************************)
LEMMA WriteOK ==
  ASSUME IInv, write_frames
  PROVE  IInv'
<1>1. /\ UNCHANGED <<sup, control, running, req, waiting, reading, core, task, out, keys,
                     taken, policy, unsent>>
      /\ SupPart /\ ReqPart /\ FramesPart /\ TaskPart /\ PolicyPart
      /\ frames \in Seq(Incoming) /\ Len(frames) <= MaxQueued
      /\ hold \in Incoming \union {NoFrame} /\ pipe \in Seq(Incoming)
      /\ \A id \in Request : Once(frames, Frame("request", id))
      /\ MaxQueued \in Nat
  BY DesktopCoreAssumption DEF write_frames, IInv, FramesPart
<1>2. (Alive' <=> Alive) /\ (LockComing' <=> LockComing)
  BY <1>1, ComingSame DEF Alive
<1>3. SupPart' /\ ReqPart' /\ PolicyPart'
  BY <1>1, <1>2, SupSame, ReqStays, PolicyStays
<1>4. CASE hold = NoFrame /\ frames # <<>>
  <2>1. /\ frames' = Tail(frames) /\ pipe' = pipe
        /\ hold' = IF StillWanted(Head(frames)) THEN Head(frames) ELSE NoFrame
    BY <1>4 DEF write_frames
  <2>2. /\ frames' \in Seq(Incoming) /\ Head(frames) \in Incoming
        /\ Len(frames') <= Len(frames) /\ Len(frames) \in Nat /\ Len(frames') \in Nat
        /\ \A x : In(frames, x) <=> (x = Head(frames) \/ In(frames', x))
        /\ \A x : Once(frames, x) => /\ Once(frames', x)
                                     /\ x = Head(frames) => ~In(frames', x)
    BY <1>1, <1>4, <2>1, TailFacts
  <2>3. ASSUME NEW id \in Request
        PROVE  /\ Once(frames', Frame("request", id))
               /\ Queued(id)' => Queued(id)
               /\ Posted(id)' => \/ Posted(id)
                                 \/ Queued(id) /\ ~Queued(id)' /\ req[id].state # "over"
    <3>1. CASE hold' = Frame("request", id)
      <4>1. Frame("request", id).kind = "request" /\ Frame("request", id).id = id
            /\ NoFrame.kind = "none"
        BY Columns
      <4>2. Head(frames) = Frame("request", id) /\ id \in waiting
        BY <2>1, <3>1, <4>1 DEF StillWanted
      <4>3. req[id].state # "over"
        BY <1>1, <4>2 DEF ReqPart
      <4>4. QED
        BY <1>1, <2>2, <4>2, <4>3, QueuedIn
    <3>2. CASE hold' # Frame("request", id)
      BY <1>1, <2>1, <2>2, <3>2, QueuedIn DEF Posted
    <3>3. QED
      BY <3>1, <3>2
  <2>4. FramesPart'
    BY <1>1, <1>2, <2>1, <2>2, <2>3, FramesTaken
  <2>5. TaskPart'
    BY <1>1, <1>2, <2>1 DEF TaskPart
  <2>6. QED
    BY <1>3, <2>4, <2>5 DEF IInv
<1>5. CASE hold # NoFrame
  <2>1. /\ pipe' = IF Alive THEN Append(pipe, hold) ELSE pipe
        /\ hold' = NoFrame /\ frames' = frames /\ hold \in Incoming
    BY <1>1, <1>5 DEF write_frames
  <2>2. /\ pipe' \in Seq(Incoming)
        /\ \A x : In(pipe', x) => x = hold \/ In(pipe, x)
    BY <1>1, <2>1, AppendFacts
  <2>3. ASSUME NEW id \in Request PROVE Posted(id)' => Posted(id)
    <3>1. Frame("request", id).kind = "request" /\ NoFrame.kind = "none"
      BY Columns
    <3>2. QED
      BY <1>1, <2>1, <2>2, <3>1 DEF Posted
  <2>4. \A id : Queued(id)' <=> Queued(id)
    BY <2>1 DEF Queued
  <2>5. FramesPart'
    BY <1>1, <1>2, <2>1, <2>2, <2>3, <2>4, FramesTaken
  <2>6. TaskPart'
    BY <1>1, <1>2, <2>1 DEF TaskPart
  <2>7. QED
    BY <1>3, <2>5, <2>6 DEF IInv
<1>6. QED
  BY <1>4, <1>5 DEF write_frames

LEMMA DeliverOK ==
  ASSUME IInv, deliver
  PROVE  IInv'
<1>1. /\ reading /\ out # <<>> /\ out' = Tail(out) /\ sup' = sup /\ unsent' = unsent
      /\ UNCHANGED <<sup, running, frames, hold, reading, core, pipe, task, keys, taken,
                     policy, unsent>>
      /\ SupPart /\ ReqPart /\ FramesPart /\ TaskPart /\ PolicyPart
      /\ req \in [Request -> RequestModel] /\ waiting \subseteq Request
      /\ \A i \in waiting : req[i].state \in {"registered", "sent", "expired"}
      /\ out \in Seq(Outgoing)
  BY DEF deliver, IInv, ReqPart, SupPart, SupTyped
<1>2. Head(out) \in Outgoing
  BY <1>1, TailFacts
<1>3. /\ SupPart' /\ ReqPart' /\ (LockComing => LockComing')
      /\ \A i \in Request : Moves(i) /\ (req'[i].state = "done" => req[i].state = "done")
  <2>1. CASE Head(out).kind \in Reports
    <3>1. PICK k \in Reports : Head(out).kind = k /\ Head(out) = Frame(k, 0)
      BY <1>2, <2>1, Contents
    <3>2. /\ control' = Append(control, Message(k, sup.generation))
          /\ UNCHANGED <<req, waiting>>
      BY <3>1 DEF deliver, Reports
    <3>3. SupPart' /\ \A x : In(control, x) => In(control', x)
      BY <1>1, <3>1, <3>2, ReportRead
    <3>4. ReqPart'
      BY <1>1, <3>2, ReqStays
    <3>5. LockComing => LockComing'
      BY <1>1, <3>3 DEF LockComing
    <3>6. QED
      BY <3>2, <3>3, <3>4, <3>5 DEF Moves
  <2>2. CASE Head(out).kind \notin Reports
    <3>1. PICK f : f = Head(out)
      OBVIOUS
    <3>2. f.id \in Request /\ f.kind \notin {"ready", "other version"}
      BY <1>2, <2>2, <3>1, Contents DEF Reports
    <3>3. /\ waiting' = waiting \ {f.id} /\ control' = control
          /\ req' = IF f.id \in waiting /\ req[f.id].state = "sent"
                    THEN [req EXCEPT ![f.id].state = "answered",
                                     ![f.id].session = (f.kind = "session")]
                    ELSE req
      BY <3>1, <3>2 DEF deliver
    <3>4. SupPart' /\ (LockComing => LockComing')
      BY <1>1, <3>3, AnswerRead, ComingSame
    <3>5. /\ DOMAIN req' = Request /\ req' = [i \in Request |-> req'[i]]
          /\ \A i \in Request : i # f.id => req'[i] = req[i]
          /\ Moves(f.id) /\ (req'[f.id].state = "done" => req[f.id].state = "done")
      <4>1. CASE f.id \in waiting /\ req[f.id].state = "sent"
        <5>1. PICK b \in BOOLEAN : b = (f.kind = "session")
          OBVIOUS
        <5>2. PICK r : r = [req[f.id] EXCEPT !.state = "answered", !.session = b]
          OBVIOUS
        <5>3. /\ r \in RequestModel /\ r.state = "answered"
              /\ r.generation = req[f.id].generation /\ r.epoch = req[f.id].epoch
          BY <1>1, <3>2, <5>1, <5>2 DEF RequestModel
        <5>4. req' = [req EXCEPT ![f.id] = r]
          BY <1>1, <3>2, <3>3, <4>1, <5>1, <5>2
        <5>5. /\ DOMAIN req' = Request /\ req' = [i \in Request |-> req'[i]]
              /\ req'[f.id] = r /\ \A i \in Request : i # f.id => req'[i] = req[i]
          BY <1>1, <3>2, <5>4
        <5>6. QED
          BY <4>1, <5>3, <5>5 DEF Moves
      <4>2. CASE ~(f.id \in waiting /\ req[f.id].state = "sent")
        BY <1>1, <3>3, <4>2 DEF Moves
      <4>3. QED
        BY <4>1, <4>2
    <3>6. \A i \in Request : Moves(i) /\ (req'[i].state = "done" => req[i].state = "done")
      BY <3>5 DEF Moves
    <3>7. \A i \in waiting' : req'[i].state \in {"registered", "sent", "expired"}
      BY <1>1, <3>3, <3>5
    <3>8. waiting' \subseteq waiting
      BY <3>3
    <3>9. ReqPart'
      BY <1>1, <3>5, <3>6, <3>7, <3>8, ReqMoved
    <3>10. QED
      BY <3>4, <3>6, <3>9
  <2>3. QED
    BY <2>1, <2>2
<1>4. FramesPart'
  <2>1. \A i : Queued(i)' <=> Queued(i)
    BY <1>1 DEF Queued
  <2>2. \A i \in unsent' : i \in Request /\ req'[i].state = "over" /\ i \in unsent
    BY <1>1, <1>3, MovesFacts DEF FramesPart
  <2>3. /\ frames' \in Seq(Incoming) /\ Len(frames') <= MaxQueued
        /\ \A i \in Request : Once(frames', Frame("request", i))
    BY <1>1 DEF FramesPart
  <2>4. QED
    BY <1>1, <1>3, <2>1, <2>2, <2>3, FramesMoved
<1>5. TaskPart'
  BY <1>1, <1>3, TaskMoved
<1>6. PolicyPart'
  BY <1>1, <1>3, PolicyMoved
<1>7. QED
  BY <1>3, <1>4, <1>5, <1>6 DEF IInv

LEMMA FailAllOK ==
  ASSUME IInv, fail_all
  PROVE  IInv'
<1>1. /\ sup' = sup /\ unsent' = unsent
      /\ UNCHANGED <<sup, running, frames, hold, child, policy, unsent>>
      /\ waiting' \subseteq waiting
      /\ req' = [id \in Request |->
                   IF id \in waiting \ waiting' /\ req[id].state = "sent"
                   THEN Over ELSE req[id]]
      /\ SupPart /\ ReqPart /\ FramesPart /\ TaskPart /\ PolicyPart
      /\ req \in [Request -> RequestModel] /\ waiting \subseteq Request
      /\ \A i \in waiting : req[i].state \in {"registered", "sent", "expired"}
  BY DEF fail_all, IInv, ReqPart
<1>2. SupPart' /\ \A x : In(control, x) => In(control', x)
  BY <1>1, ReaderEnds
<1>3. LockComing => LockComing'
  BY <1>1, <1>2 DEF LockComing
<1>4. /\ DOMAIN req' = Request /\ req' = [i \in Request |-> req'[i]]
      /\ \A i \in Request :
           \/ req'[i] = req[i]
           \/ req'[i] = Over /\ req[i].state = "sent" /\ i \notin waiting'
  BY <1>1
<1>5. \A i \in Request : Moves(i) /\ (req'[i].state = "done" => req[i].state = "done")
  BY <1>4, OverFacts DEF Moves
<1>6. \A i \in waiting' : req'[i].state \in {"registered", "sent", "expired"}
  BY <1>1, <1>4
<1>7. ReqPart'
  BY <1>1, <1>4, <1>5, <1>6, ReqMoved
<1>8. /\ \A i : Queued(i)' <=> Queued(i)
      /\ frames' \in Seq(Incoming) /\ Len(frames') <= MaxQueued
      /\ \A i \in Request : Once(frames', Frame("request", i))
  BY <1>1 DEF Queued, FramesPart
<1>9. QED
  BY <1>1, <1>2, <1>3, <1>5, <1>7, <1>8, RequestStep

-----------------------------------------------------------------------------
(***************************************************************************)
(* The core.                                                               *)
(***************************************************************************)
LEMMA OneMore ==
  ASSUME NEW D, IsFiniteSet(D), NEW x
  PROVE  /\ IsFiniteSet(D \union {x}) /\ Cardinality(D) \in Nat
         /\ \/ Cardinality(D \union {x}) = Cardinality(D)
            \/ Cardinality(D \union {x}) = Cardinality(D) + 1
BY FS_AddElement, FS_CardinalityType

LEMMA EmptyTask == DOMAIN Empty = {}
BY DEF Empty

LEMMA EndsTask ==
  ASSUME TaskPart, Ends(out)
  PROVE  TaskPart' /\ ~Alive' /\ pipe' = <<>> /\ DOMAIN taken' = {} /\ keys' = 0
<1>1. /\ core' = "dead" /\ pipe' = <<>> /\ task' = Empty /\ keys' = 0 /\ taken' = Empty
      /\ MaxInFlight \in Nat
  BY DesktopCoreAssumption DEF Ends
<1>2. IsFiniteSet({}) /\ Cardinality({}) = 0
  BY FS_EmptySet
<1>3. ~Alive'
  BY <1>1 DEF Alive
<1>4. QED
  BY <1>1, <1>2, <1>3, EmptyTask DEF TaskPart

\* A step of a live core: it takes no request that did not come to it.
LEMMA CoreOK ==
  ASSUME IInv, Alive, UNCHANGED <<shell, policy, unsent>>,
         core' \in CoreStates, core' = "starting" => core = "starting", SupPart',
         pipe' \in Seq(Incoming), TaskPart',
         \A id \in Request : /\ In(pipe', Frame("request", id)) \/ id \in DOMAIN taken' =>
                                  Posted(id)
                             /\ keys' = id => keys = id \/ Posted(id)
  PROVE  IInv'
<1>1. /\ UNCHANGED <<sup, control, running, req, waiting, frames, hold, reading>>
      /\ sup' = sup
  BY DEF shell
<1>2. ReqPart'
  BY <1>1, ReqStays DEF IInv
<1>3. PolicyPart'
  BY <1>1, PolicyStays, ComingSame DEF IInv
<1>4. FramesPart'
  <2>1. \A id \in Request : /\ Queued(id)' <=> Queued(id)
                            /\ Posted(id)' => Posted(id)
    BY <1>1 DEF Queued, Posted
  <2>2. /\ frames' \in Seq(Incoming) /\ Len(frames') <= MaxQueued
        /\ hold' \in Incoming \union {NoFrame}
        /\ \A id \in Request : Once(frames', Frame("request", id))
    BY <1>1 DEF IInv, FramesPart
  <2>3. QED
    BY <1>1, <2>1, <2>2, FramesTaken DEF IInv
<1>5. QED
  BY <1>2, <1>3, <1>4 DEF IInv

LEMMA EndsOK ==
  ASSUME IInv, Alive, Ends(out), UNCHANGED <<shell, policy, unsent>>
  PROVE  IInv'
<1>1. /\ core' = "dead" /\ out' \in {out, <<>>}
      /\ UNCHANGED <<sup, control, reading, running>>
  BY DEF Ends, shell
<1>2. SupPart'
  BY <1>1, CoreStep DEF CoreStates, IInv
<1>3. TaskPart' /\ pipe' = <<>> /\ DOMAIN taken' = {} /\ keys' = 0
  BY EndsTask DEF IInv
<1>4. pipe' \in Seq(Incoming) /\ \A x : ~In(pipe', x)
  BY <1>3, EmptyFacts
<1>5. 0 \notin Request
  BY DesktopCoreAssumption
<1>6. QED
  BY <1>1, <1>2, <1>3, <1>4, <1>5, CoreOK DEF CoreStates

\* A live core with these tasks is as it should be.
LEMMA TasksFit ==
  ASSUME req' = req, Alive', DOMAIN taken' \subseteq Request,
         DOMAIN task' \subseteq DOMAIN taken', IsFiniteSet(DOMAIN task'),
         Cardinality(DOMAIN task') <= MaxInFlight,
         \A id \in DOMAIN taken' : taken'[id] = IF id \in DOMAIN task' THEN 0 ELSE 1,
         keys' \in Request \union {0},
         keys' # 0 => req[keys'].state \notin {"idle", "registered"}
  PROVE  TaskPart'
BY DEF TaskPart

\* The tasks are told to stop, or begin; none is new and none is gone.
LEMMA SameTasks ==
  ASSUME IInv, Alive, Alive', UNCHANGED <<shell, policy, unsent>>,
         UNCHANGED <<out, keys, taken>>, DOMAIN task' = DOMAIN task,
         core' \in CoreStates, core' = "starting" => core = "starting",
         pipe' \in Seq(Incoming), \A x : In(pipe', x) => In(pipe, x)
  PROVE  IInv'
<1>1. req' = req /\ UNCHANGED <<sup, control, reading, running>>
  BY DEF shell
<1>2. SupPart'
  BY <1>1, CoreStep DEF IInv
<1>3. TaskPart'
  BY <1>1, TasksFit DEF IInv, TaskPart
<1>4. QED
  BY <1>2, <1>3, CoreOK DEF Posted

LEMMA ReadyCore ==
  ASSUME IInv, ready
  PROVE  IInv'
<1>1. /\ core = "starting" /\ core' = "serving" /\ UNCHANGED <<shell, policy, unsent>>
      /\ UNCHANGED <<pipe, task, keys, taken>> /\ req' = req
  BY DEF ready, shell
<1>2. Alive /\ Alive' /\ core' \in CoreStates /\ core' # "starting"
  BY <1>1 DEF Alive, CoreStates
<1>3. SupPart'
  BY ReadySup DEF IInv
<1>4. TaskPart'
  BY <1>1, <1>2, TasksFit DEF IInv, TaskPart
<1>5. QED
  BY <1>1, <1>2, <1>3, <1>4, CoreOK DEF Posted, IInv, FramesPart

LEMMA BeginOK ==
  ASSUME IInv, NEW id \in Request, Begin(id)
  PROVE  IInv'
<1>1. /\ core = "serving" /\ core' = core /\ UNCHANGED <<shell, policy, unsent>>
      /\ UNCHANGED <<pipe, out, keys, taken>> /\ DOMAIN task' = DOMAIN task
  BY DEF Begin
<1>2. Alive /\ Alive' /\ core' \in CoreStates
  BY <1>1 DEF Alive, CoreStates
<1>3. QED
  BY <1>1, <1>2, SameTasks DEF IInv, FramesPart

LEMMA EofOK ==
  ASSUME IInv, Eof
  PROVE  IInv'
<1>1. /\ core = "serving" /\ core' = "draining" /\ UNCHANGED <<shell, policy, unsent>>
      /\ UNCHANGED <<pipe, out, keys, taken>> /\ DOMAIN task' = DOMAIN task
  BY DEF Eof, CancelAll
<1>2. Alive /\ Alive' /\ core' \in CoreStates
  BY <1>1 DEF Alive, CoreStates
<1>3. QED
  BY <1>1, <1>2, SameTasks DEF IInv, FramesPart

LEMMA ServeOK ==
  ASSUME IInv, serve
  PROVE  IInv'
<1> DEFINE f == Head(pipe)
<1>1. /\ core = "serving" /\ pipe # <<>> /\ UNCHANGED <<shell, policy, unsent>>
      /\ pipe' = IF core' = "dead" THEN <<>> ELSE Tail(pipe)
      /\ pipe \in Seq(Incoming) /\ Alive /\ req' = req
      /\ UNCHANGED <<sup, control, reading, running>>
  BY DEF serve, IInv, FramesPart, Alive, shell
<1>2. /\ Tail(pipe) \in Seq(Incoming) /\ f \in Incoming
      /\ \A x : In(pipe, x) <=> (x = f \/ In(Tail(pipe), x))
  BY <1>1, TailFacts
<1>3. CASE f.kind = "request" /\ _start(f.id)
  <2>1. f.id \in Request /\ f = Frame("request", f.id) /\ Posted(f.id)
    BY <1>2, <1>3, Contents DEF Posted
  <2>2. CASE Ends(out)
    BY <1>1, <2>2, EndsOK
  <2>3. CASE /\ out' = Append(out, Frame("error", f.id))
             /\ UNCHANGED <<core, task, taken, keys>>
    <3>1. Alive' /\ core' \in CoreStates /\ core' # "dead"
      BY <1>1, <2>3 DEF Alive, CoreStates
    <3>2. Frame("error", f.id) \in Answers
      <4>1. "error" \in {"error", "session", "response"}
        OBVIOUS
      <4>2. QED
        BY <2>1, <4>1 DEF Answers
    <3>3. SupPart'
      BY <1>1, <2>3, <3>1, <3>2, CoreStep DEF IInv
    <3>4. TaskPart'
      BY <1>1, <2>3, <3>1, TasksFit DEF IInv, TaskPart
    <3>5. QED
      BY <1>1, <1>2, <2>3, <3>1, <3>3, <3>4, CoreOK DEF Posted
  <2>4. CASE /\ Cardinality(DOMAIN task) < MaxInFlight
             /\ task' = [i \in DOMAIN task \union {f.id} |->
                           IF i = f.id THEN "created" ELSE task[i]]
             /\ taken' = [i \in DOMAIN taken \union {f.id} |->
                            IF i = f.id THEN 0 ELSE taken[i]]
             /\ UNCHANGED <<core, out, keys>>
    <3>1. Alive' /\ core' \in CoreStates /\ core' # "dead"
      BY <1>1, <2>4 DEF Alive, CoreStates
    <3>2. SupPart'
      BY <1>1, <2>4, <3>1, CoreStep DEF IInv
    <3>3. /\ DOMAIN task' = DOMAIN task \union {f.id}
          /\ DOMAIN taken' = DOMAIN taken \union {f.id}
          /\ \A i \in DOMAIN taken' : taken'[i] = IF i = f.id THEN 0 ELSE taken[i]
      BY <2>4
    <3>4. IsFiniteSet(DOMAIN task') /\ Cardinality(DOMAIN task') <= MaxInFlight
      <4>1. IsFiniteSet(DOMAIN task) /\ MaxInFlight \in Nat
        BY DesktopCoreAssumption DEF IInv, TaskPart
      <4>2. /\ IsFiniteSet(DOMAIN task') /\ Cardinality(DOMAIN task) \in Nat
            /\ \/ Cardinality(DOMAIN task') = Cardinality(DOMAIN task)
               \/ Cardinality(DOMAIN task') = Cardinality(DOMAIN task) + 1
        <5>1. PICK D, x : D = DOMAIN task /\ x = f.id
          OBVIOUS
        <5>2. DOMAIN task' = D \union {x} /\ IsFiniteSet(D)
          BY <3>3, <4>1, <5>1
        <5>3. /\ IsFiniteSet(D \union {x}) /\ Cardinality(D) \in Nat
              /\ \/ Cardinality(D \union {x}) = Cardinality(D)
                 \/ Cardinality(D \union {x}) = Cardinality(D) + 1
          BY <5>2, OneMore
        <5>4. QED
          BY <5>1, <5>2, <5>3
      <4>3. QED
        BY <2>4, <4>1, <4>2
    <3>5. \A i \in DOMAIN taken' : taken'[i] = IF i \in DOMAIN task' THEN 0 ELSE 1
      BY <3>3 DEF IInv, TaskPart
    <3>6. DOMAIN taken' \subseteq Request /\ DOMAIN task' \subseteq DOMAIN taken'
      BY <2>1, <3>3 DEF IInv, TaskPart
    <3>7. /\ keys' \in Request \union {0}
          /\ keys' # 0 => req[keys'].state \notin {"idle", "registered"}
      BY <2>4 DEF IInv, TaskPart
    <3>8. TaskPart'
      BY <1>1, <3>1, <3>4, <3>5, <3>6, <3>7, TasksFit
    <3>9. QED
      BY <1>1, <1>2, <2>1, <2>4, <3>1, <3>2, <3>3, <3>8, CoreOK DEF Posted
  <2>5. QED
    <3>1. Cardinality(DOMAIN task) \in Nat /\ MaxInFlight \in Nat
      BY FS_CardinalityType, DesktopCoreAssumption DEF IInv, TaskPart
    <3>2. CASE Cardinality(DOMAIN task) >= MaxInFlight
      BY <1>3, <2>2, <2>3, <3>2 DEF _start, Send
    <3>3. CASE Cardinality(DOMAIN task) < MaxInFlight
      BY <1>3, <2>4, <3>1, <3>3 DEF _start
    <3>4. QED
      BY <3>1, <3>2, <3>3
<1>4. CASE /\ f.kind = "cancel"
           /\ task' = [i \in DOMAIN task |->
                         IF i = f.id THEN Cancelled(task[i]) ELSE task[i]]
           /\ UNCHANGED <<core, out, keys, taken>>
  <2>1. Alive' /\ core' \in CoreStates /\ core' # "dead" /\ DOMAIN task' = DOMAIN task
    BY <1>1, <1>4 DEF Alive, CoreStates
  <2>2. QED
    BY <1>1, <1>2, <1>4, <2>1, SameTasks
<1>5. CASE /\ f.kind = "shutdown"
           /\ core' = "draining" /\ task' = CancelAll
           /\ UNCHANGED <<out, keys, taken>>
  <2>1. Alive' /\ core' \in CoreStates /\ core' # "dead" /\ DOMAIN task' = DOMAIN task
    BY <1>1, <1>5 DEF Alive, CoreStates, CancelAll
  <2>2. QED
    BY <1>1, <1>2, <1>5, <2>1, SameTasks
<1>6. QED
  BY <1>3, <1>4, <1>5 DEF serve

\* A task that ends, and its answer.
LEMMA WorkOK ==
  ASSUME IInv, NEW id \in Request, Work(id)
  PROVE  IInv'
<1>1. /\ id \in DOMAIN task /\ UNCHANGED <<shell, policy, unsent>>
      /\ pipe' = IF core' = "dead" THEN <<>> ELSE pipe
      /\ id \in DOMAIN taken /\ Posted(id) /\ req' = req
      /\ UNCHANGED <<sup, control, reading, running>>
      /\ pipe \in Seq(Incoming)
  BY DEF Work, IInv, TaskPart, Posted, shell, FramesPart
<1>2. Alive /\ core \in CoreStates /\ core # "dead"
  BY <1>1, EmptyTask DEF IInv, TaskPart, SupPart, SupTyped, Alive
<1>3. PICK told \in {"error", "session", "response"}, k \in Opens(id) :
        Send(Frame(told, id), Without(id), Counted(id, 1), k)
  <2>1. keys \in Opens(id)
    BY DEF Opens
  <2>2. CASE _handle(id)
    BY <2>2 DEF _handle
  <2>3. CASE completed(id)
    BY <2>1, <2>3 DEF completed
  <2>4. CASE CancelledError(id)
    BY <2>4 DEF CancelledError
  <2>5. QED
    BY <2>2, <2>3, <2>4 DEF Work
<1>4. CASE Ends(out)
  BY <1>1, <1>2, <1>4, EndsOK
<1>5. CASE /\ out' = Append(out, Frame(told, id)) /\ core' = core
           /\ task' = Without(id) /\ taken' = Counted(id, 1) /\ keys' = k
  <2>1. Alive' /\ core' \in CoreStates /\ core' # "dead" /\ pipe' = pipe
    BY <1>1, <1>2, <1>5 DEF Alive
  <2>2. Frame(told, id) \in Answers
    BY <1>3 DEF Answers
  <2>3. SupPart'
    BY <1>1, <1>2, <1>5, <2>1, <2>2, CoreStep DEF IInv
  <2>4. /\ DOMAIN task' = DOMAIN task \ {id} /\ DOMAIN taken' = DOMAIN taken
        /\ taken'[id] = taken[id] + 1
        /\ \A i \in DOMAIN taken' : i # id => taken'[i] = taken[i]
    BY <1>1, <1>5 DEF Without, Counted
  <2>5. /\ DOMAIN taken \subseteq Request /\ DOMAIN task \subseteq DOMAIN taken
        /\ IsFiniteSet(DOMAIN task) /\ Cardinality(DOMAIN task) <= MaxInFlight
        /\ \A i \in DOMAIN taken : taken[i] = IF i \in DOMAIN task THEN 0 ELSE 1
        /\ MaxInFlight \in Nat
    BY DesktopCoreAssumption DEF IInv, TaskPart
  <2>6. IsFiniteSet(DOMAIN task') /\ Cardinality(DOMAIN task') <= MaxInFlight
    <3>1. ASSUME NEW D, IsFiniteSet(D)
          PROVE  /\ IsFiniteSet(D \ {id}) /\ Cardinality(D \ {id}) <= Cardinality(D)
                 /\ Cardinality(D) \in Nat /\ Cardinality(D \ {id}) \in Nat
      <4>1. IsFiniteSet(D \ {id}) /\ Cardinality(D \ {id}) <= Cardinality(D)
        BY <3>1, FS_Subset, D \ {id} \subseteq D
      <4>2. QED
        BY <3>1, <4>1, FS_CardinalityType
    <3>2. QED
      BY <2>4, <2>5, <3>1
  <2>7. \A i \in DOMAIN taken' : taken'[i] = IF i \in DOMAIN task' THEN 0 ELSE 1
    <3>1. taken[id] = 0
      BY <1>1, <2>5
    <3>2. taken'[id] = 1
      BY <2>4, <3>1
    <3>3. QED
      BY <2>4, <2>5, <3>2
  <2>8. DOMAIN taken' \subseteq Request /\ DOMAIN task' \subseteq DOMAIN taken'
    BY <2>4, <2>5
  <2>9. keys' = keys \/ keys' = id
    BY <1>3, <1>5 DEF Opens
  <2>10. /\ keys' \in Request \union {0}
         /\ keys' # 0 => req[keys'].state \notin {"idle", "registered"}
    <3>1. req[id].state \notin {"idle", "registered"}
      BY <1>1 DEF IInv, FramesPart
    <3>2. QED
      BY <2>9, <3>1 DEF IInv, TaskPart
  <2>11. TaskPart'
    BY <1>1, <2>1, <2>6, <2>7, <2>8, <2>10, TasksFit
  <2>12. ASSUME NEW i \in Request
         PROVE  /\ In(pipe', Frame("request", i)) \/ i \in DOMAIN taken' => Posted(i)
                /\ keys' = i => keys = i \/ Posted(i)
    BY <1>1, <2>1, <2>4, <2>9 DEF Posted
  <2>13. QED
    BY <1>1, <1>2, <1>5, <2>1, <2>3, <2>11, <2>12, CoreOK
<1>6. QED
  BY <1>3, <1>4, <1>5 DEF Send

-----------------------------------------------------------------------------
(***************************************************************************)
(* The supervisor, for all the parts.                                      *)
(***************************************************************************)
LEMMA SupervisorOK ==
  ASSUME IInv, Supervise \/ GraceEnds
  PROVE  IInv'
<1>1. /\ SupPart' /\ (SameChild \/ NewChild)
      /\ UNCHANGED <<req, waiting, unsent>>
  BY SuperviseOK DEF IInv, Stays
<1>2. /\ frames \in Seq(Incoming) /\ Len(frames) <= MaxQueued
      /\ hold \in Incoming \union {NoFrame} /\ pipe \in Seq(Incoming)
      /\ \A id \in Request : Once(frames, Frame("request", id))
      /\ MaxQueued \in Nat /\ 0 \notin Request
  BY DesktopCoreAssumption DEF IInv, FramesPart
<1>3. CASE SameChild
  <2>1. /\ sup'.generation = sup.generation /\ (sup.ready => sup'.ready) /\ hold' = hold
        /\ \/ frames' = frames
           \/ frames' = Append(frames, Frame("shutdown", 0)) /\ Len(frames) < MaxQueued
        /\ UNCHANGED child \/ (Alive /\ Ends(out))
        /\ Alive' /\ sup.ready /\ LockComing => LockComing'
        /\ policy' = policy \/ (Resets /\ ~Alive')
    BY <1>3 DEF SameChild
  <2>2. /\ TaskPart' /\ (Alive' => Alive) /\ pipe' \in Seq(Incoming)
        /\ \A id \in Request : /\ Posted(id)' => Posted(id)
                               /\ keys' = id => keys = id
    <3>1. CASE UNCHANGED child
      <4>1. UNCHANGED <<core, pipe, task, keys, taken>>
        BY <3>1 DEF child
      <4>2. Alive' <=> Alive
        BY <4>1 DEF Alive
      <4>3. TaskPart'
        BY <1>1, <4>1, <4>2 DEF IInv, TaskPart
      <4>4. QED
        BY <1>2, <2>1, <4>1, <4>2, <4>3 DEF Posted
    <3>2. CASE Alive /\ Ends(out)
      <4>1. TaskPart' /\ ~Alive' /\ pipe' = <<>> /\ DOMAIN taken' = {} /\ keys' = 0
        BY <3>2, EndsTask DEF IInv
      <4>2. pipe' \in Seq(Incoming) /\ \A x : ~In(pipe', x)
        BY <4>1, EmptyFacts
      <4>3. QED
        BY <1>2, <2>1, <4>1, <4>2 DEF Posted
    <3>3. QED
      BY <2>1, <3>1, <3>2
  <2>3. /\ frames' \in Seq(Incoming) /\ Len(frames') <= MaxQueued
        /\ \A id \in Request : Once(frames', Frame("request", id))
        /\ \A id \in Request : Queued(id)' => Queued(id)
    <3>1. CASE frames' = frames
      BY <1>2, <3>1 DEF Queued
    <3>2. CASE frames' = Append(frames, Frame("shutdown", 0)) /\ Len(frames) < MaxQueued
      <4>1. /\ Frame("shutdown", 0) \in Incoming /\ Frame("shutdown", 0).kind = "shutdown"
            /\ \A i : Frame("request", i).kind = "request"
        BY Columns DEF Incoming
      <4>2. /\ frames' \in Seq(Incoming) /\ Len(frames') <= MaxQueued
            /\ \A id \in Request : Once(frames', Frame("request", id))
            /\ \A id \in Request :
                 Queued(id)' => Queued(id) \/ Frame("shutdown", 0) = Frame("request", id)
        BY <3>2, <4>1, FrameAdded DEF IInv
      <4>3. QED
        BY <4>1, <4>2
    <3>3. QED
      BY <2>1, <3>1, <3>2
  <2>4. FramesPart'
    BY <1>1, <1>2, <2>1, <2>2, <2>3, FramesTaken DEF IInv
  <2>5. ReqPart' /\ PolicyPart'
    BY <1>1, <2>1, <2>2, ReqStays, PolicyStays, PolicyReset DEF IInv
  <2>6. QED
    BY <1>1, <2>2, <2>4, <2>5 DEF IInv
<1>4. CASE NewChild
  <2>1. /\ sup'.generation = sup.generation + 1 /\ ~Alive /\ Resets
        /\ UNCHANGED <<pipe, task, keys, taken>>
        /\ \/ frames' = <<>> /\ hold' = NoFrame
           \/ frames' = frames /\ hold' = hold /\ ~Alive'
        /\ pipe = <<>> /\ task = Empty /\ taken = Empty /\ keys = 0
    BY <1>4 DEF NewChild, IInv, TaskPart
  <2>2. ReqPart' /\ PolicyPart'
    BY <1>1, <2>1, ReqStays, PolicyReset DEF IInv
  <2>3. TaskPart'
    BY <1>1, <2>1 DEF IInv, TaskPart
  <2>4. FramesPart'
    <3>1. CASE frames' = <<>> /\ hold' = NoFrame
      <4>1. /\ frames' \in Seq(Incoming) /\ Len(frames') = 0 /\ \A x : ~In(frames', x)
            /\ \A x : ~In(pipe', x)
            /\ \A x : Once(frames', x)
        BY <2>1, <3>1, EmptyFacts
      <4>2. ASSUME NEW id \in Request PROVE ~Queued(id)' /\ ~Posted(id)' /\ ~InCore(id)'
        <5>1. Frame("request", id).kind = "request" /\ NoFrame.kind = "none"
          BY Columns
        <5>2. ~Queued(id)' /\ ~Posted(id)'
          BY <2>1, <3>1, <4>1, <5>1, QueuedIn, EmptyTask DEF Posted
        <5>3. QED
          BY <1>2, <2>1, <5>2 DEF InCore
      <4>3. \A id \in unsent' : id \in Request /\ req'[id].state = "over"
        BY <1>1 DEF IInv, FramesPart
      <4>4. QED
        BY <1>1, <1>2, <2>1, <3>1, <4>1, <4>2, <4>3 DEF FramesPart
    <3>2. CASE frames' = frames /\ hold' = hold /\ ~Alive'
      <4>1. \A id : (Queued(id)' <=> Queued(id)) /\ (Posted(id)' <=> Posted(id))
        BY <2>1, <3>2 DEF Queued, Posted
      <4>2. QED
        BY <1>1, <1>2, <2>1, <3>2, <4>1 DEF IInv, FramesPart
    <3>3. QED
      BY <2>1, <3>1, <3>2
  <2>5. QED
    BY <1>1, <2>2, <2>3, <2>4 DEF IInv
<1>5. QED
  BY <1>1, <1>3, <1>4

-----------------------------------------------------------------------------
(***************************************************************************)
(* The invariant holds, and what follows from it.                          *)
(***************************************************************************)
LEMMA InitOK ==
  ASSUME Init
  PROVE  IInv
<1>1. PICK b \in BOOLEAN : b = FALSE
  OBVIOUS
<1>2. /\ sup = [generation |-> 0, child |-> b, writer |-> b, ready |-> b,
                incompatible |-> b, shutting |-> b, crashes |-> 0,
                state |-> "starting", grace |-> b, panicked |-> b, own |-> b]
      /\ control = <<Message("start", 0)>> /\ running = 0
      /\ waiting = {} /\ frames = <<>> /\ hold = NoFrame
      /\ core = "none" /\ reading = b
      /\ pipe = <<>> /\ task = Empty /\ out = <<>> /\ keys = 0 /\ taken = Empty
      /\ policy = [epoch |-> 0, deadline |-> 0, locking |-> b]
      /\ unsent = {} /\ req = [id \in Request |-> NoRequest]
  BY <1>1 DEF Init
<1>3. /\ sup \in SupModel /\ sup.generation = 0 /\ sup.child = b /\ sup.writer = b
      /\ sup.ready = b /\ sup.incompatible = b /\ sup.shutting = b /\ sup.grace = b
  BY <1>2 DEF SupModel
<1>4. ~Alive /\ core \in CoreStates
  BY <1>2 DEF Alive, CoreStates
<1>5. /\ control \in Seq(Msg)
      /\ \A x : In(control, x) => x = Message("start", 0)
      /\ \A x : Once(control, x)
  <2>1. Message("start", 0) \in Msg
    BY Messages
  <2>2. control \in Seq(Msg) /\ DOMAIN control = {1} /\ control[1] = Message("start", 0)
    BY <1>2, <2>1
  <2>3. QED
    BY <2>2 DEF In, Once
<1>6. \A k, g : In(control, Message(k, g)) => k = "start" /\ g = 0
  <2>1. ASSUME NEW k, NEW g, In(control, Message(k, g)) PROVE k = "start" /\ g = 0
    <3>1. /\ Message(k, g).kind = k /\ Message(k, g).generation = g
          /\ Message("start", 0).kind = "start" /\ Message("start", 0).generation = 0
      BY Columns
    <3>2. QED
      BY <1>5, <2>1, <3>1
  <2>2. QED
    BY <2>1
<1>7. \A k \in Reports \union {"exited"} : ~Reported(k)
  BY <1>6 DEF Reported, Reports
<1>8. SupPart
  <2>1. SupTyped
    BY <1>2, <1>3, <1>4, <1>5, EmptyFacts DEF SupTyped
  <2>2. ChildFits /\ ReapedFits
    BY <1>1, <1>2, <1>3, <1>4, <1>7 DEF ChildFits, ReapedFits, RunningIsReady
  <2>3. ASSUME NEW k \in Reports
        PROVE  /\ NotAfter(control, Message("exited", sup.generation),
                                    Message(k, sup.generation))
               /\ Once(control, Message(k, sup.generation))
               /\ Once(out, Frame(k, 0)) /\ ~In(out, Frame(k, 0))
    <3>1. ~In(control, Message(k, sup.generation))
      BY <1>7 DEF Reported
    <3>2. NotAfter(control, Message("exited", sup.generation), Message(k, sup.generation))
      BY <3>1 DEF In, NotAfter
    <3>3. QED
      BY <1>2, <1>5, <3>2, EmptyFacts
  <2>4. \A k, g : In(control, Message(k, g)) => g <= sup.generation
    BY <1>3, <1>6
  <2>5. ReportsFit
    BY <1>2, <1>7, <2>3, <2>4 DEF ReportsFit, Reports
  <2>6. QED
    BY <2>1, <2>2, <2>5 DEF SupPart
<1>9. /\ \A id \in Request : req[id] \in RequestModel /\ req[id].state = "idle"
                             /\ req[id].epoch = 0
      /\ req \in [Request -> RequestModel]
  <2>1. NoRequest = [state |-> "idle", generation |-> 0, epoch |-> 0, session |-> b]
    BY <1>1 DEF NoRequest
  <2>2. NoRequest \in RequestModel /\ NoRequest.state = "idle" /\ NoRequest.epoch = 0
    BY <2>1 DEF RequestModel
  <2>3. QED
    BY <1>2, <2>2
<1>10. IsFiniteSet({}) /\ Cardinality({}) = 0
  BY FS_EmptySet
<1>11. ReqPart
  BY <1>2, <1>9, <1>10, DesktopCoreAssumption DEF ReqPart
<1>12. FramesPart
  <2>1. /\ frames \in Seq(Incoming) /\ Len(frames) = 0 /\ pipe \in Seq(Incoming)
        /\ \A x : ~In(frames, x) /\ ~In(pipe, x) /\ Once(frames, x)
    BY <1>2, EmptyFacts
  <2>2. ASSUME NEW id \in Request PROVE ~Queued(id) /\ ~Posted(id)
    <3>1. Frame("request", id).kind = "request" /\ NoFrame.kind = "none"
      BY Columns
    <3>2. QED
      BY <1>2, <2>1, <3>1, QueuedIn, EmptyTask DEF Posted
  <2>3. QED
    BY <1>2, <1>4, <2>1, <2>2, DesktopCoreAssumption DEF FramesPart
<1>13. TaskPart
  BY <1>2, <1>10, EmptyTask, DesktopCoreAssumption DEF TaskPart
<1>14. PolicyPart
  <2>1. /\ policy \in [epoch : Nat, deadline : Request \union {0}, locking : BOOLEAN]
        /\ policy.epoch = 0 /\ policy.deadline = 0
    BY <1>2
  <2>2. QED
    BY <1>4, <1>9, <2>1 DEF PolicyPart
<1>15. QED
  BY <1>8, <1>11, <1>12, <1>13, <1>14 DEF IInv

LEMMA NextOK ==
  ASSUME IInv, [Next]_vars
  PROVE  IInv'
<1>1. CASE UNCHANGED vars
  <2>1. /\ UNCHANGED <<sup, control, running, req, waiting, frames, hold, reading, policy,
                       unsent, core, out>>
        /\ UNCHANGED child
    BY <1>1 DEF vars, child
  <2>2. SupPart'
    BY <2>1, SupSame DEF IInv
  <2>3. PolicyPart'
    BY <2>1, PolicyStays, ComingSame DEF IInv, Alive
  <2>4. QED
    BY <2>1, <2>2, <2>3, StillStep
<1>2. CASE Requests
  BY <1>2, AskOK, QueueOK, ExpireOK, AbandonOK, CancelOK, ObserveOK DEF Requests
<1>3. CASE Pipes
  BY <1>3, WriteOK, DeliverOK, FailAllOK DEF Pipes
<1>4. CASE Core
  <2>1. CASE _drain
    BY <2>1, EndsOK DEF _drain, Alive
  <2>2. QED
    BY <1>4, <2>1, ReadyCore, ServeOK, EofOK, BeginOK, WorkOK DEF Core
<1>5. CASE Supervise \/ GraceEnds
  BY <1>5, SupervisorOK
<1>6. CASE Around
  <2>1. sup.generation \in Nat /\ 0 \in 0..sup.generation
    BY DEF IInv, SupPart, SupTyped, SupModel
  <2>2. CASE BeginLock
    BY <2>2, BeginLockOK
  <2>3. CASE lock
    BY <2>3, LockAsked
  <2>4. CASE Crash
    BY <2>4, EndsOK DEF Crash
  <2>5. CASE Quit
    BY <2>1, <2>5, SentOK DEF Quit
  <2>6. CASE restart
    BY <2>1, <2>6, SentOK DEF restart
  <2>7. ASSUME NEW g \in 1..sup.generation, ReadyTimer(g) PROVE IInv'
    <3>1. g \in 0..sup.generation
      BY <2>1
    <3>2. QED
      BY <2>7, <3>1, SentOK DEF ReadyTimer
  <2>8. QED
    BY <1>6, <2>2, <2>3, <2>4, <2>5, <2>6, <2>7 DEF Around
<1>7. QED
  BY <1>1, <1>2, <1>3, <1>4, <1>5, <1>6 DEF Next

\* The inductive invariant: the supervisor's picture of its child, the requests
\* with their frames, the core's tasks and the policy all fit together.
THEOREM Invariance == Spec => []IInv
<1>1. Init => IInv
  BY InitOK
<1>2. IInv /\ [Next]_vars => IInv'
  BY NextOK
<1>3. QED
  BY <1>1, <1>2, PTL DEF Spec

\* What the supervisor keeps of a child is true of it whatever message comes
\* when: the limits hold, and requests go to a core that is ready (sidecar.rs).
THEOREM AlwaysSound == Spec => []SupervisorIsSound
<1>1. ASSUME IInv PROVE SupervisorIsSound
  <2>1. TypeOK
    BY <1>1 DEF IInv, SupPart, SupTyped, ChildFits, ReqPart, FramesPart, TaskPart,
                CoreStates, TypeOK
  <2>2. RunningIsReady
    BY <1>1 DEF IInv, SupPart, ChildFits
  <2>3. QED
    BY <2>1, <2>2 DEF SupervisorIsSound
<1>2. QED
  BY <1>1, Invariance, PTL

\* A request is handled at most once: given up in time it is not taken up, and
\* taken up it is answered once (sidecar.rs:write_frames, server.py:_start).
THEOREM AlwaysOnce == Spec => []HandledOnce
<1>1. ASSUME IInv PROVE HandledOnce
  <2>1. UnsentIsDiscarded
    BY <1>1 DEF IInv, FramesPart, Posted, UnsentIsDiscarded
  <2>2. OneAnswerEach
    BY <1>1 DEF IInv, TaskPart, OneAnswerEach
  <2>3. QED
    BY <2>1, <2>2 DEF HandledOnce
<1>2. QED
  BY <1>1, Invariance, PTL

\* Once an answer of the present core told the shell of a session, the keys it
\* holds are watched: there is a deadline, of this core and epoch, or a lock or
\* the end is on its way (lock.rs:observe and reset_renderer, lib.rs:155).
THEOREM AlwaysWatched == Spec => []KeysAreWatched
<1>1. ASSUME IInv PROVE KeysAreWatched
  <2>1. DeadlineIsOfThisCore
    BY <1>1 DEF IInv, PolicyPart, DeadlineIsOfThisCore
  <2>2. ASSUME NEW id \in Request, req[id].state = "done", req[id].session,
               req[id].generation = sup.generation, keys # 0
        PROVE  policy.deadline # 0 \/ LockIsComing
    <3>1. Alive
      BY <1>1, <2>2 DEF IInv, TaskPart
    <3>2. policy.deadline # 0 \/ LockComing
      BY <1>1, <2>2, <3>1 DEF IInv, PolicyPart
    <3>3. Message("lock", 0).kind = "lock" /\ Message("shutdown", 0).kind = "shutdown"
      BY Columns
    <3>4. LockComing => LockIsComing
      BY <3>3 DEF LockComing, LockIsComing, In
    <3>5. QED
      BY <3>2, <3>4
  <2>3. QED
    BY <2>1, <2>2 DEF KeysAreWatched
<1>2. QED
  BY <1>1, Invariance, PTL

\* Only the supervisor takes messages from its queue.
LEMMA OnlySupervise ==
  ASSUME IInv, [Next]_vars, control # <<>>, control' = Tail(control)
  PROVE  Supervise
<1>1. control \in Seq(Msg) /\ sup.generation \in Nat /\ control' # control
      /\ \A m \in Msg : control' # Append(control, m)
  <2>1. control \in Seq(Msg) /\ sup.generation \in Nat
    BY DEF IInv, SupPart, SupTyped, SupModel
  <2>2. Len(control) \in Nat /\ Len(Tail(control)) = Len(control) - 1
    BY <2>1
  <2>3. \A m \in Msg : Len(Append(control, m)) = Len(control) + 1
    BY <2>1, AppendFacts
  <2>4. Len(control') = Len(control) - 1
    BY <2>2
  <2>5. Len(control') # Len(control) /\ Len(control') # Len(control) + 1
    <3>1. ASSUME NEW n \in Nat, NEW l, l = n - 1 PROVE l # n /\ l # n + 1
      BY <3>1
    <3>2. QED
      BY <2>2, <2>4, <3>1
  <2>6. ASSUME NEW m \in Msg PROVE control' # Append(control, m)
    BY <2>3, <2>5
  <2>7. QED
    BY <2>1, <2>5, <2>6
<1>2. \A k \in Kinds, g \in Nat : Message(k, g) \in Msg
  BY Messages
<1>3. /\ "lock" \in Kinds /\ "shutdown" \in Kinds /\ "start" \in Kinds /\ "timer" \in Kinds
      /\ "exited" \in Kinds /\ "ready" \in Kinds /\ "other version" \in Kinds /\ 0 \in Nat
  BY DEF Kinds, Reports
<1>4. /\ Message("lock", 0) \in Msg /\ Message("shutdown", 0) \in Msg
      /\ Message("start", 0) \in Msg /\ Message("exited", sup.generation) \in Msg
      /\ Message("ready", sup.generation) \in Msg
      /\ Message("other version", sup.generation) \in Msg
      /\ \A g \in 1..sup.generation : Message("timer", g) \in Msg
  <2>1. ASSUME NEW g \in 1..sup.generation PROVE Message("timer", g) \in Msg
    <3>1. g \in Nat
      BY <1>1
    <3>2. QED
      BY <1>2, <1>3, <3>1
  <2>2. /\ Message("lock", 0) \in Msg /\ Message("shutdown", 0) \in Msg
        /\ Message("start", 0) \in Msg
    BY <1>2, <1>3
  <2>3. /\ Message("exited", sup.generation) \in Msg
        /\ Message("ready", sup.generation) \in Msg
        /\ Message("other version", sup.generation) \in Msg
    BY <1>1, <1>2, <1>3
  <2>4. QED
    BY <2>1, <2>2, <2>3
<1>5. ~UNCHANGED vars
  BY <1>1 DEF vars
<1>6. ~Requests
  <2>1. ASSUME NEW g, NEW id PROVE ~CancelOrLock(g, id)
    BY <1>1, <1>4 DEF CancelOrLock
  <2>2. ASSUME NEW id \in Request
        PROVE  /\ ~Ask(id) /\ ~Queue(id) /\ ~Expire(id) /\ ~Observe(id)
               /\ ~Abandon(id) /\ ~cancel(id)
    BY <1>1, <2>1 DEF Ask, Queue, Expire, Observe, Abandon, cancel
  <2>3. QED
    BY <2>2 DEF Requests
<1>7. ~Pipes
  <2>1. ~write_frames /\ ~fail_all
    BY <1>1, <1>4 DEF write_frames, fail_all
  <2>2. ~deliver
    BY <1>1, <1>4 DEF deliver
  <2>3. QED
    BY <2>1, <2>2 DEF Pipes
<1>8. ~Core
  <2>1. control' # control
    BY <1>1
  <2>2. ~ready /\ ~serve /\ ~Eof /\ ~_drain
    BY <2>1 DEF ready, serve, Eof, _drain, shell
  <2>3. \A id \in Request : ~Begin(id) /\ ~Work(id)
    BY <2>1 DEF Begin, Work, shell
  <2>4. QED
    BY <2>2, <2>3 DEF Core
<1>9. ~Around
  <2>1. ~BeginLock /\ ~Crash
    BY <1>1 DEF BeginLock, Crash, shell
  <2>2. ~lock /\ ~Quit /\ ~restart
    BY <1>1, <1>4 DEF lock, Quit, restart
  <2>3. \A g \in 1..sup.generation : ~ReadyTimer(g)
    BY <1>1, <1>4 DEF ReadyTimer
  <2>4. QED
    BY <2>1, <2>2, <2>3 DEF Around
<1>10. ~GraceEnds
  BY <1>1 DEF GraceEnds
<1>11. QED
  BY <1>5, <1>6, <1>7, <1>8, <1>9, <1>10 DEF Next

\* "Kill the process that owns all keys": when the supervisor has handled a
\* lock, whatever it was doing when the lock came, no keys are in memory.
THEOREM LocksEndTheKeys == Spec => LockEndsTheKeys
<1>1. ASSUME IInv, [Next]_vars, control # <<>>, Head(control).kind = "lock",
             control' = Tail(control)
      PROVE  keys' = 0
  <2>1. Lock(Head(control))
    <3>1. Supervise
      BY <1>1, OnlySupervise
    <3>2. QED
      BY <1>1, <3>1 DEF Supervise, Start, Ready, ReadyTimeout, Exited, Shutdown, Ignored
  <2>2. ~Alive => keys = 0
    BY <1>1 DEF IInv, TaskPart
  <2>3. keys # 0 => sup.ready /\ sup.child
    <3>1. ASSUME keys # 0 PROVE sup.ready /\ sup.child
      <4>1. keys \in Request /\ Alive /\ InCore(keys)
        BY <1>1, <2>2, <3>1 DEF IInv, TaskPart, InCore
      <4>2. sup.ready
        BY <1>1, <4>1 DEF IInv, FramesPart
      <4>3. sup.child
        BY <1>1, <4>1 DEF IInv, SupPart, ChildFits
      <4>4. QED
        BY <4>2, <4>3
    <3>2. QED
      BY <3>1
  <2>4. CASE Kill
    BY <2>2, <2>4 DEF Kill, Ends, child
  <2>5. CASE ~(sup.ready /\ sup.child) /\ UNCHANGED child
    BY <2>3, <2>5 DEF child
  <2>6. QED
    BY <2>1, <2>4, <2>5 DEF Lock
<1>2. IInv /\ [Next]_vars =>
        [(control # <<>> /\ Head(control).kind = "lock"
            /\ control' = Tail(control)) => keys' = 0]_vars
  BY <1>1
<1>3. QED
  BY <1>2, Invariance, PTL DEF Spec, LockEndsTheKeys

=============================================================================
