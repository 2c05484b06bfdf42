--------------------------- MODULE DashboardProofs ---------------------------
(***************************************************************************)
(* Proofs about Dashboard for every set of threads, browsers, lines,       *)
(* replies, stages and setups and every bound.                             *)
(***************************************************************************)
EXTENDS Dashboard, FiniteSetTheorems, TLAPS

BothModes == {"pipeline", "flow"}
TraceRecord == [turn : Nat, mode : BothModes, life : Nat, count : Int]

(* --- shapes ------------------------------------------------------------ *)

(* A record with the fields of Idle, whatever line, live and todo hold.    *)
Names == {"pc", "turn", "line", "live", "field", "mode", "pos", "todo"}
IsTurn(r) ==
  /\ r = [x \in Names |-> r[x]]
  /\ r.turn \in Nat /\ r.field.turns \in Int /\ r.mode \in BothModes /\ r.pos \in Nat

ProcsTyped ==
  /\ proc = [p \in Procs |-> proc[p]]
  /\ \A p \in Procs : IsTurn(proc[p])

TypeOK ==
  /\ ProcsTyped
  /\ setup \in Setups
  /\ server \in [up : BOOLEAN, mode : BothModes, stops : Nat]
  /\ turns \in Nat /\ clears \in Nat
  /\ field.turns \in Int
  /\ traces \in Seq(TraceRecord)

LEMMA IdleIs == IsTurn(Idle) /\ Idle.pc = "idle" /\ Idle.turn = 0 /\ Idle.pos = 0
<1>1. Idle = [x \in Names |-> Idle[x]]
  BY DEF Idle, Names
<1>2. Idle.field = NoFile /\ NoFile.turns = -1
  BY DEF Idle, NoFile
<1>3. Idle.turn \in Nat /\ Idle.mode \in BothModes /\ Idle.pos \in Nat
  BY DEF Idle, BothModes
<1> QED BY <1>1, <1>2, <1>3 DEF IsTurn, Idle

LEMMA OffIs == IsTurn([Idle EXCEPT !.pc = "off"]) /\ [Idle EXCEPT !.pc = "off"].pc = "off"
BY IdleIs DEF IsTurn, Names

LEMMA RestsIn ==
  ASSUME TypeOK, NEW p \in Procs, Rest(p)
  PROVE  /\ ProcsTyped'
         /\ \A q \in Procs \ {p} : proc'[q] = proc[q]
         /\ proc'[p].pc = IF p = Chat THEN "off" ELSE "idle"
BY IdleIs, OffIs DEF Rest, TypeOK, ProcsTyped

LEMMA GoesTo ==
  ASSUME TypeOK, NEW p \in Procs, NEW pc, Goto(p, pc)
  PROVE  /\ ProcsTyped'
         /\ \A q \in Procs \ {p} : proc'[q] = proc[q]
         /\ proc'[p].pc = pc /\ proc'[p].turn = proc[p].turn /\ proc'[p].field = proc[p].field
         /\ proc'[p].mode = proc[p].mode /\ proc'[p].pos = proc[p].pos
<1> DEFINE q == [proc[p] EXCEPT !.pc = pc]
<1>1. IsTurn(proc[p])
  BY DEF TypeOK, ProcsTyped
<1>2. /\ IsTurn(q) /\ q.pc = pc /\ q.turn = proc[p].turn /\ q.field = proc[p].field
      /\ q.mode = proc[p].mode /\ q.pos = proc[p].pos
  BY <1>1 DEF IsTurn, Names
<1>3. proc' = [proc EXCEPT ![p] = q]
  BY DEF Goto, TypeOK, ProcsTyped
<1> HIDE DEF q
<1> QED BY <1>2, <1>3 DEF TypeOK, ProcsTyped

LEMMA LoadedTurns == TypeOK => Loaded.turns \in Int /\ Loaded.turns >= field.turns
BY DEF Loaded, TypeOK, FreshField, NoFile

LEMMA Integrates ==
  ASSUME NEW f, NEW live, NEW m, NEW r, NEW turn
  PROVE  IntegrateField(f, live, m, r, turn).turns = f.turns + 1
BY DEF IntegrateField

(* What each step leaves of the turns in progress.                         *)
LEMMA Posts ==
  ASSUME TypeOK, NEW h \in Handlers, NEW line, Post(h, line)
  PROVE  /\ ProcsTyped' /\ proc'[h].pc = "posted"
         /\ \A q \in Procs \ {h} : proc'[q] = proc[q]
<1> DEFINE n == [Idle EXCEPT !.pc = "posted", !.line = line]
<1>1. IsTurn(n) /\ n.pc = "posted"
  BY IdleIs DEF IsTurn, Names
<1>2. proc' = [proc EXCEPT ![h] = n]
  BY DEF Post
<1> HIDE DEF n
<1> QED BY <1>1, <1>2 DEF TypeOK, ProcsTyped, Procs

LEMMA Begins ==
  ASSUME TypeOK, NEW p \in Procs, NEW mode \in BothModes, NEW line, Begin(p, mode, line)
  PROVE  /\ ProcsTyped' /\ proc'[p].pc = "infer" /\ proc'[p].mode = mode
         /\ proc'[p].turn = turns + 1
         /\ mode = "flow" => proc'[p].field = Loaded
         /\ \A q \in Procs \ {p} : proc'[q] = proc[q]
<1> DEFINE f == IF mode = "flow" THEN Loaded ELSE NoFile
           live == IF mode = "flow" THEN ComposeField(Loaded, line) ELSE <<>>
           r == [Idle EXCEPT !.pc = "infer", !.turn = turns + 1, !.line = line, !.mode = mode,
                             !.field = f, !.live = live]
<1>1. f.turns \in Int
  BY LoadedTurns DEF NoFile
<1>2. proc' = [proc EXCEPT ![p] = r]
  BY DEF Begin
<1> HIDE DEF f, live
<1>3. /\ r = [x \in Names |-> r[x]]
      /\ r.pc = "infer" /\ r.mode = mode /\ r.turn = turns + 1 /\ r.field = f /\ r.pos = Idle.pos
  BY IdleIs DEF IsTurn, Names
<1>4. IsTurn(r) /\ r.pc = "infer" /\ r.mode = mode /\ r.turn = turns + 1 /\ r.field = f
  <2> HIDE DEF r
  <2> QED BY <1>1, <1>3, IdleIs DEF TypeOK, IsTurn
<1> HIDE DEF r
<1>5. ProcsTyped' /\ proc'[p] = r /\ \A q \in Procs \ {p} : proc'[q] = proc[q]
  BY <1>2, <1>4 DEF TypeOK, ProcsTyped
<1> QED BY <1>4, <1>5 DEF f

LEMMA Exchanges ==
  ASSUME TypeOK, NEW p \in Procs, NEW r, Exchange(p, r), ~ObservationsRaise(proc[p].field, r)
  PROVE  /\ ProcsTyped' /\ proc'[p].pc = "save" /\ proc'[p].mode = proc[p].mode
         /\ proc'[p].field.turns = proc[p].field.turns + 1
         /\ proc'[p].field = IntegrateField(proc[p].field, proc[p].live, proc[p].line, r, proc[p].turn)
         /\ proc'[p].turn = proc[p].turn
         /\ \A q \in Procs \ {p} : proc'[q] = proc[q]
<1> DEFINE o == proc[p]
           f == IntegrateField(o.field, o.live, o.line, r, o.turn)
           n == [o EXCEPT !.pc = "save", !.field = f]
<1>1. IsTurn(o)
  BY DEF TypeOK, ProcsTyped
<1>2. f.turns = o.field.turns + 1
  BY Integrates
<1>3. proc' = [proc EXCEPT ![p] = n]
  BY DEF Exchange, TypeOK, ProcsTyped
<1> HIDE DEF f
<1>4. /\ n = [x \in Names |-> n[x]]
      /\ n.pc = "save" /\ n.mode = o.mode /\ n.field = f /\ n.turn = o.turn /\ n.pos = o.pos
  BY <1>1 DEF IsTurn, Names
<1>5. IsTurn(n) /\ n.pc = "save" /\ n.mode = o.mode /\ n.field = f /\ n.turn = o.turn
  <2> HIDE DEF n
  <2> QED BY <1>1, <1>2, <1>4 DEF IsTurn
<1> HIDE DEF n
<1>6. ProcsTyped' /\ proc'[p] = n /\ \A q \in Procs \ {p} : proc'[q] = proc[q]
  BY <1>3, <1>5 DEF TypeOK, ProcsTyped
<1> QED BY <1>2, <1>5, <1>6 DEF f

LEMMA Stores ==
  ASSUME TypeOK, NEW h \in Handlers, StoreTurn(h)
  PROVE  /\ ProcsTyped' /\ proc'[h].pc = "publish" /\ proc'[h].turn = proc[h].turn
         /\ proc'[h].mode = proc[h].mode /\ proc'[h].pos = 1
         /\ \A q \in Procs \ {h} : proc'[q] = proc[q]
<1> DEFINE o == proc[h]
           n == [Idle EXCEPT !.pc = "publish", !.turn = o.turn, !.mode = o.mode, !.pos = 1]
<1>1. IsTurn(o)
  BY DEF TypeOK, ProcsTyped, Procs
<1>2. proc' = [proc EXCEPT ![h] = n]
  BY DEF StoreTurn
<1>4. IsTurn(n) /\ n.pc = "publish" /\ n.turn = o.turn /\ n.mode = o.mode /\ n.pos = 1
  BY <1>1, IdleIs DEF IsTurn, Names
<1> HIDE DEF n
<1>5. ProcsTyped' /\ proc'[h] = n /\ \A q \in Procs \ {h} : proc'[q] = proc[q]
  BY <1>2, <1>4 DEF TypeOK, ProcsTyped, Procs
<1> QED BY <1>4, <1>5

LEMMA Publishes ==
  ASSUME TypeOK, NEW h \in Handlers, Publish(h) \/ Put(h)
  PROVE  /\ ProcsTyped' /\ proc'[h].pc \in {"idle", "publish", "put"}
         /\ proc'[h].pc # "idle" => /\ proc'[h].turn = proc[h].turn /\ proc'[h].mode = proc[h].mode
                                    /\ proc'[h].pos \in {proc[h].pos, proc[h].pos + 1}
         /\ proc'[h].pc = "put" =>
              proc'[h].pos = proc[h].pos /\ (proc[h].pc = "publish" => ~Done(proc[h]))
         /\ \A q \in Procs \ {h} : proc'[q] = proc[q]
<1> DEFINE o == proc[h]
<1>1. IsTurn(o)
  BY DEF TypeOK, ProcsTyped, Procs
<1>2. CASE Publish(h)
  <2> DEFINE n == Copied(o)
  <2>1. /\ IsTurn(n) /\ n.pc \in {"idle", "publish", "put"}
        /\ n.pc # "idle" => n.turn = o.turn /\ n.mode = o.mode /\ n.pos \in {o.pos, o.pos + 1}
        /\ n.pc = "put" => n.pos = o.pos /\ ~Done(o)
    <3>1. CASE Done(o)
      BY IdleIs, <3>1 DEF Copied
    <3>2. CASE ~Done(o) /\ subs = <<>>
      BY <1>1, <1>2, <3>2 DEF Copied, IsTurn, Names, Publish
    <3>3. CASE ~Done(o) /\ subs # <<>>
      BY <1>1, <3>3 DEF Copied, IsTurn, Names
    <3> QED BY <3>1, <3>2, <3>3
  <2>2. proc' = [proc EXCEPT ![h] = n]
    BY <1>2 DEF Publish, TypeOK, ProcsTyped, Procs
  <2> HIDE DEF n
  <2> QED BY <2>1, <2>2 DEF TypeOK, ProcsTyped, Procs
<1>3. CASE Put(h)
  <2> DEFINE n == Sent(o)
  <2>1. /\ IsTurn(n) /\ n.pc \in {"idle", "publish", "put"}
        /\ n.turn = o.turn /\ n.mode = o.mode /\ n.pos \in {o.pos, o.pos + 1}
        /\ n.pc = "put" => n.pos = o.pos
    <3>1. CASE Len(o.todo) > 1
      BY <1>1, <1>3, <3>1 DEF Sent, IsTurn, Names, Put
    <3>2. CASE ~(Len(o.todo) > 1)
      <4>1. /\ n = [x \in Names |-> n[x]]
            /\ n.pc = "publish" /\ n.mode = o.mode /\ n.field = o.field /\ n.turn = o.turn /\ n.pos = o.pos + 1
        BY <1>1, <3>2 DEF Sent, IsTurn, Names
      <4> HIDE DEF n
      <4> QED BY <1>1, <4>1 DEF IsTurn
    <3> QED BY <3>1, <3>2
  <2>2. proc' = [proc EXCEPT ![h] = n]
    BY <1>3 DEF Put, TypeOK, ProcsTyped, Procs
  <2>3. proc[h].pc = "put"
    BY <1>3 DEF Put
  <2> HIDE DEF n
  <2> QED BY <2>1, <2>2, <2>3 DEF TypeOK, ProcsTyped, Procs
<1> QED BY <1>2, <1>3

LEMMA ChatTraces ==
  ASSUME TypeOK, ChatTrace
  PROVE  /\ ProcsTyped' /\ proc'[Chat].pc = "idle" /\ \A q \in Procs \ {Chat} : proc'[q] = proc[q]
BY IdleIs DEF ChatTrace, TypeOK, ProcsTyped, Procs

LEMMA Stops ==
  ASSUME TypeOK, Stop
  PROVE  ProcsTyped' /\ \A h \in Handlers : proc'[h].pc = "idle"
BY IdleIs, ProcsAssumption DEF Stop, TypeOK, ProcsTyped, Procs

LEMMA TraceTyped == ASSUME TypeOK, NEW p \in Procs PROVE Trace(p) \in TraceRecord
BY DEF TypeOK, ProcsTyped, IsTurn, Trace, TraceRecord

(* --- types ------------------------------------------------------------- *)

LEMMA TypeStep == TypeOK /\ [Next]_vars => TypeOK'
<1> SUFFICES ASSUME TypeOK, [Next]_vars PROVE TypeOK'
  OBVIOUS
<1> USE DEF Procs
<1>1. CASE UNCHANGED vars
  BY <1>1 DEF vars, TypeOK, ProcsTyped
<1>2. ASSUME NEW h \in Handlers, NEW line, Post(h, line) PROVE TypeOK'
  BY <1>2, Posts DEF Post, TypeOK
<1>3. ASSUME NEW h \in Handlers, RunTurn(h) PROVE TypeOK'
  <2>1. Begin(h, server.mode, proc[h].line) /\ server.mode \in BothModes
    BY <1>3 DEF RunTurn, TypeOK
  <2>2. ProcsTyped'
    BY <2>1, Begins
  <2> QED BY <1>3, <2>1, <2>2 DEF RunTurn, Begin, TypeOK
<1>4. ASSUME NEW line, ChatTurn(line) PROVE TypeOK'
  <2>1. ProcsTyped'
    BY <1>4, Begins DEF ChatTurn, BothModes
  <2> QED BY <1>4, <2>1 DEF ChatTurn, Begin, TypeOK
<1>5. ASSUME NEW p \in Procs, NEW r, Exchange(p, r) PROVE TypeOK'
  <2>1. ProcsTyped'
    <3>1. CASE ObservationsRaise(proc[p].field, r)
      BY <1>5, <3>1, RestsIn DEF Exchange
    <3>2. CASE ~ObservationsRaise(proc[p].field, r)
      BY <1>5, <3>2, Exchanges
    <3> QED BY <3>1, <3>2
  <2> QED BY <1>5, <2>1 DEF Exchange, TypeOK
<1>6. ASSUME NEW h \in Handlers, RunPipeline(h) PROVE TypeOK'
  <2>1. ProcsTyped'
    BY <1>6, GoesTo DEF RunPipeline
  <2> QED BY <1>6, <2>1 DEF RunPipeline, TypeOK
<1>7. ASSUME NEW p \in Procs, SaveField(p) PROVE TypeOK'
  <2>1. ProcsTyped' /\ field'.turns \in Int
    BY <1>7, GoesTo DEF SaveField, TypeOK, ProcsTyped, IsTurn
  <2> QED BY <1>7, <2>1 DEF SaveField, TypeOK
<1>8. ASSUME NEW h \in Handlers, StoreTurn(h) PROVE TypeOK'
  <2>1. ProcsTyped' /\ Trace(h) \in TraceRecord
    BY <1>8, Stores, TraceTyped
  <2> QED BY <1>8, <2>1 DEF StoreTurn, TypeOK
<1>9. CASE ChatTrace
  <2>1. ProcsTyped' /\ Trace(Chat) \in TraceRecord
    BY <1>9, ChatTraces, TraceTyped
  <2> QED BY <1>9, <2>1 DEF ChatTrace, TypeOK
<1>10. ASSUME NEW p \in Procs, WriteFails(p) \/ (p = Chat /\ ChatEnd) PROVE TypeOK'
  <2>1. ProcsTyped'
    BY <1>10, RestsIn DEF WriteFails, ChatEnd
  <2> QED BY <1>10, <2>1 DEF WriteFails, ChatEnd, TypeOK
<1>11. ASSUME NEW h \in Handlers, Publish(h) \/ Put(h) PROVE TypeOK'
  <2>1. ProcsTyped'
    BY <1>11, Publishes
  <2> QED BY <1>11, <2>1 DEF Publish, Put, TypeOK
<1>12. ASSUME NEW w \in Watchers, Connect(w) \/ Deliver(w) \/ Hangup(w) PROVE TypeOK'
  BY <1>12 DEF Connect, Deliver, Hangup, TypeOK, ProcsTyped
<1>13. ASSUME NEW t, Unsubscribe(t) PROVE TypeOK'
  BY <1>13 DEF Unsubscribe, TypeOK, ProcsTyped
<1>14. CASE Stop
  <2>1. ProcsTyped'
    BY <1>14, Stops
  <2>2. server' \in [up : BOOLEAN, mode : BothModes, stops : Nat]
    <3>1. server \in [up : BOOLEAN, mode : BothModes, stops : Nat]
      BY DEF TypeOK
    <3>2. server' = [up |-> FALSE, mode |-> server.mode, stops |-> server.stops + 1]
      BY <1>14, <3>1 DEF Stop
    <3>3. server.mode \in BothModes /\ server.stops \in Nat
      BY <3>1
    <3> QED BY <3>2, <3>3
  <2> QED BY <1>14, <2>1, <2>2 DEF Stop, TypeOK
<1>15. ASSUME NEW mode \in Modes, NEW new \in BOOLEAN, Start(mode, new) PROVE TypeOK'
  <2>1. ProcsTyped'
    BY <1>15 DEF Start, TypeOK, ProcsTyped
  <2>3. field'.turns \in Int /\ clears' \in Nat
    BY <1>15 DEF Start, Clear, TypeOK, NoFile
  <2>2. server' \in [up : BOOLEAN, mode : BothModes, stops : Nat]
    BY <1>15, DashboardAssumption DEF Start, TypeOK, BothModes
  <2> QED BY <1>15, <2>1, <2>2, <2>3 DEF Start, TypeOK
<1>16. ASSUME NEW new \in BOOLEAN, ChatStart(new) PROVE TypeOK'
  <2>1. Goto(Chat, "idle")
    BY <1>16 DEF ChatStart, Goto
  <2>2. ProcsTyped' /\ field'.turns \in Int /\ clears' \in Nat
    BY <1>16, <2>1, GoesTo DEF ChatStart, Clear, TypeOK, NoFile
  <2> QED BY <1>16, <2>2 DEF ChatStart, TypeOK
<1> QED BY <1>1, <1>2, <1>3, <1>4, <1>5, <1>6, <1>7, <1>8, <1>9, <1>10, <1>11, <1>12, <1>13, <1>14,
           <1>15, <1>16 DEF Next, Step, ChatStep

LEMMA TypeInit == Init => TypeOK
<1> SUFFICES ASSUME Init PROVE TypeOK
  OBVIOUS
<1>2. ProcsTyped
  BY IdleIs, OffIs DEF Init, ProcsTyped
<1>3. server \in [up : BOOLEAN, mode : BothModes, stops : Nat] /\ field.turns \in Int
  BY DashboardAssumption DEF Init, BothModes
<1> QED BY <1>2, <1>3 DEF Init, TypeOK

(* The shapes of every turn in progress, of the traces and of the field.  *)
THEOREM DashboardTyped == Spec => []TypeOK
BY TypeInit, TypeStep, PTL DEF Spec

(* --- no integration is lost -------------------------------------------- *)

Busy == {"infer", "save", "trace"}
FlowTrace(i) == i \in DOMAIN traces /\ traces[i].mode = "flow"
OfThisField(i) == FlowTrace(i) /\ traces[i].life = clears

(* What a turn in progress knows of the field on disk: nobody writes it    *)
(* while the turn holds the lock.                                          *)
Reads(q) ==
  /\ proc[q].pc \in Busy => lock = q
  /\ proc[q].pc = "infer" /\ proc[q].mode = "flow" => proc[q].field.turns >= field.turns
  /\ proc[q].pc = "save" => proc[q].mode = "flow" /\ proc[q].field.turns > field.turns
  /\ proc[q].pc = "trace" /\ proc[q].mode = "flow" =>
       /\ proc[q].field.turns = field.turns
       /\ \A i : OfThisField(i) => traces[i].count < field.turns

Counted ==
  /\ \A i : OfThisField(i) => field.turns >= traces[i].count
  /\ \A i, j : FlowTrace(i) /\ FlowTrace(j) /\ i < j /\ traces[i].life = traces[j].life =>
       traces[i].count < traces[j].count

Alone ==
  /\ proc[Chat].pc = "off"
  /\ \A h \in Handlers : Reads(h)
  /\ ~server.up => \A h \in Handlers : proc[h].pc = "idle"
  /\ \A i \in DOMAIN traces : traces[i].life <= clears
  /\ Counted

KeepInv == TypeOK /\ (~setup.chatting => Alone)

LEMMA KeepImplies == KeepInv => FieldKeepsTurns
<1> SUFFICES ASSUME TypeOK, Alone, NEW j \in DOMAIN traces, traces[j].mode = "flow"
             PROVE  /\ traces[j].life = clears => field.turns >= traces[j].count
                    /\ \A i \in 1..(j - 1) :
                         traces[i].mode = "flow" /\ traces[i].life = traces[j].life
                           => traces[i].count < traces[j].count
  BY DEF KeepInv, FieldKeepsTurns
<1>1. DOMAIN traces = 1..Len(traces) /\ Len(traces) \in Nat
  BY DEF TypeOK
<1>2. \A i \in 1..(j - 1) : i \in DOMAIN traces /\ i < j
  BY <1>1
<1> QED BY <1>2 DEF Alone, Counted, FlowTrace, OfThisField

LEMMA KeepInit == Init => KeepInv
<1> SUFFICES ASSUME Init PROVE Alone
  BY TypeInit DEF KeepInv
<1>1. proc[Chat].pc = "off" /\ \A h \in Handlers : proc[h].pc = "idle"
  BY OffIs, IdleIs, ProcsAssumption DEF Init, Procs
<1>2. DOMAIN traces = {}
  BY DEF Init
<1> QED BY <1>1, <1>2 DEF Alone, Reads, Busy, Counted, FlowTrace, OfThisField

(* Steps that leave the field, the traces and the lives alone keep what    *)
(* the turns in progress know, if the turn they move keeps its own.        *)
LEMMA KeepQuiet ==
  ASSUME Alone, UNCHANGED <<field, traces, clears>>, proc'[Chat].pc = "off",
         \A h \in Handlers : Reads(h)',
         ~server'.up => \A h \in Handlers : proc'[h].pc = "idle"
  PROVE  Alone'
BY DEF Alone, Counted, FlowTrace, OfThisField

LEMMA ReadsSame ==
  ASSUME NEW q, Reads(q), UNCHANGED <<field, traces, clears>>, proc'[q] = proc[q],
         proc[q].pc \in Busy => lock' = lock
  PROVE  Reads(q)'
BY DEF Reads, Busy, FlowTrace, OfThisField

(* A step of one turn that leaves the field and the traces alone.          *)
LEMMA KeepTurn ==
  ASSUME Alone, NEW h \in Handlers, UNCHANGED <<server, field, traces, clears>>,
         \A q \in Procs \ {h} : proc'[q] = proc[q],
         ~server.up => proc'[h].pc = "idle",
         \A q \in Handlers \ {h} : proc[q].pc \in Busy => lock' = lock,
         Reads(h)'
  PROVE  Alone'
<1>1. Chat # h /\ Chat \in Procs
  BY ProcsAssumption DEF Procs
<1>2. proc'[Chat].pc = "off"
  BY <1>1 DEF Alone
<1>3. \A q \in Handlers : Reads(q)'
  BY ReadsSame DEF Alone, Procs
<1>4. ~server'.up => \A q \in Handlers : proc'[q].pc = "idle"
  BY DEF Alone, Procs
<1> QED BY <1>2, <1>3, <1>4, KeepQuiet

LEMMA TracesAre ==
  TypeOK => \A i \in DOMAIN traces : traces[i].life \in Nat /\ traces[i].count \in Int
<1> SUFFICES ASSUME TypeOK, NEW i \in DOMAIN traces PROVE traces[i].life \in Nat /\ traces[i].count \in Int
  OBVIOUS
<1>1. traces \in Seq(TraceRecord)
  BY DEF TypeOK
<1>2. traces[i] \in TraceRecord
  BY <1>1
<1> QED BY <1>2 DEF TraceRecord

LEMMA KeepStep == KeepInv /\ [Next]_vars => KeepInv'
<1> SUFFICES ASSUME KeepInv, [Next]_vars, ~setup.chatting PROVE Alone'
  <2>1. KeepInv /\ [Next]_vars => setup' = setup
    BY DEF Next, vars, Step, ChatStep, Post, RunTurn, RunPipeline, SaveField, StoreTurn, Publish, Put, Exchange,
           ChatTurn, ChatTrace, ChatEnd, ChatStart, WriteFails, Connect, Deliver, Hangup, Unsubscribe, Stop, Start
  <2> QED BY <2>1, TypeStep DEF KeepInv
<1> USE DEF KeepInv
<1>1. CASE UNCHANGED vars
  <2>1. \A h \in Handlers : Reads(h)'
    BY <1>1, ReadsSame DEF vars, Alone
  <2> QED BY <1>1, <2>1, KeepQuiet DEF vars, Alone
<1>2. ASSUME NEW h \in Handlers, NEW line, Post(h, line) PROVE Alone'
  <2>1. Reads(h)'
    BY <1>2, Posts DEF Reads, Busy
  <2> QED BY <1>2, <2>1, Posts, KeepTurn DEF Post
<1>3. ASSUME NEW h \in Handlers, RunTurn(h) PROVE Alone'
  <2>1. Begin(h, server.mode, proc[h].line) /\ server.mode \in BothModes
    BY <1>3 DEF RunTurn, TypeOK
  <2>2. \A q \in Handlers : proc[q].pc \notin Busy
    BY <1>3, ProcsAssumption DEF RunTurn, Alone, Reads
  <2>3. Reads(h)'
    BY <1>3, <2>1, Begins, LoadedTurns DEF Reads, Busy, RunTurn, Procs
  <2>4. ~server.up => FALSE
    BY <1>3 DEF RunTurn, Alone
  <2>5. \A q \in Procs \ {h} : proc'[q] = proc[q]
    BY <2>1, Begins DEF Procs
  <2> QED BY <1>3, <2>2, <2>3, <2>4, <2>5, KeepTurn DEF RunTurn
<1>4. ASSUME NEW h \in Handlers, NEW r, Exchange(h, r) PROVE Alone'
  <2>0. lock = h
    BY <1>4 DEF Alone, Reads, Busy, Exchange
  <2>1. \A q \in Handlers \ {h} : proc[q].pc \notin Busy
    BY <2>0 DEF Alone, Reads
  <2>2. ~server.up => FALSE
    BY <1>4 DEF Exchange, Alone
  <2>3. CASE ObservationsRaise(proc[h].field, r)
    <3>1. Rest(h)
      BY <1>4, <2>3 DEF Exchange
    <3>2. proc'[h].pc = "idle" /\ \A q \in Procs \ {h} : proc'[q] = proc[q]
      BY <3>1, RestsIn, ProcsAssumption DEF Procs
    <3>3. Reads(h)'
      BY <3>2 DEF Reads, Busy
    <3> QED BY <1>4, <2>1, <2>2, <3>2, <3>3, KeepTurn DEF Exchange
  <2>4. CASE ~ObservationsRaise(proc[h].field, r)
    <3>1. /\ proc'[h].pc = "save" /\ proc'[h].mode = "flow"
          /\ proc'[h].field.turns = proc[h].field.turns + 1
          /\ \A q \in Procs \ {h} : proc'[q] = proc[q]
      BY <1>4, <2>4, Exchanges DEF Exchange, Procs
    <3>2. lock' = lock /\ field' = field
      BY <1>4, <2>4 DEF Exchange
    <3>3. proc[h].field.turns >= field.turns /\ proc[h].field.turns \in Int /\ field.turns \in Int
      BY <1>4 DEF Exchange, Alone, Reads, TypeOK, ProcsTyped, IsTurn, Procs
    <3>4. Reads(h)'
      BY <2>0, <3>1, <3>2, <3>3 DEF Reads
    <3> QED BY <1>4, <2>1, <2>2, <3>1, <3>4, KeepTurn DEF Exchange
  <2> QED BY <2>3, <2>4
<1>5. ASSUME NEW h \in Handlers, RunPipeline(h) PROVE Alone'
  <2>1. /\ proc'[h].pc = "trace" /\ proc'[h].mode = "pipeline"
        /\ \A q \in Procs \ {h} : proc'[q] = proc[q]
    BY <1>5, GoesTo DEF RunPipeline, Procs
  <2>2. Reads(h)' /\ (~server.up => FALSE)
    BY <1>5, <2>1 DEF Reads, Busy, RunPipeline, Alone
  <2> QED BY <1>5, <2>1, <2>2, KeepTurn DEF RunPipeline
<1>6. ASSUME NEW h \in Handlers, SaveField(h) PROVE Alone'
  <2>1. /\ proc'[h].pc = "trace" /\ proc'[h].field = proc[h].field /\ proc'[h].mode = proc[h].mode
        /\ \A q \in Procs \ {h} : proc'[q] = proc[q]
    BY <1>6, GoesTo DEF SaveField, Procs
  <2>2. /\ lock = h /\ proc[h].mode = "flow" /\ proc[h].field.turns > field.turns
        /\ proc[h].field.turns \in Int /\ field.turns \in Int
    BY <1>6 DEF SaveField, Alone, Reads, Busy, TypeOK, ProcsTyped, IsTurn, Procs
  <2>3. field' = proc[h].field /\ UNCHANGED <<server, lock, traces, clears>>
    BY <1>6 DEF SaveField
  <2>4. \A i : OfThisField(i) => traces[i].count \in Int /\ field.turns >= traces[i].count
    BY TracesAre DEF Alone, Counted, OfThisField, FlowTrace
  <2>5. \A i : OfThisField(i) => traces[i].count < field'.turns
    BY <2>2, <2>3, <2>4
  <2>6. Reads(h)'
    BY <2>1, <2>2, <2>3, <2>5 DEF Reads, OfThisField, FlowTrace
  <2>7. \A q \in Handlers \ {h} : Reads(q)'
    BY <2>1, <2>2 DEF Alone, Reads, Busy, Procs
  <2>8. Counted'
    BY <2>2, <2>3, <2>4, <2>5 DEF Alone, Counted, OfThisField, FlowTrace
  <2>9. server.up /\ proc'[Chat].pc = "off"
    BY <1>6, <2>1, ProcsAssumption DEF SaveField, Alone, Procs
  <2> QED BY <2>3, <2>6, <2>7, <2>8, <2>9 DEF Alone
<1>7. ASSUME NEW h \in Handlers, StoreTurn(h) PROVE Alone'
  <2>1. proc'[h].pc = "publish" /\ \A q \in Procs \ {h} : proc'[q] = proc[q]
    BY <1>7, Stores DEF Procs
  <2>2. traces' = Append(traces, Trace(h)) /\ UNCHANGED <<server, field, clears>> /\ proc[h].pc = "trace"
    BY <1>7 DEF StoreTurn
  <2>3. Trace(h) \in TraceRecord /\ traces \in Seq(TraceRecord)
    BY TraceTyped DEF TypeOK, Procs
  <2>4. /\ DOMAIN traces' = DOMAIN traces \cup {Len(traces) + 1} /\ Len(traces) \in Nat
        /\ DOMAIN traces = 1..Len(traces)
        /\ \A i \in DOMAIN traces : traces'[i] = traces[i]
        /\ traces'[Len(traces) + 1] = Trace(h)
    BY <2>2, <2>3
  <2>5. /\ lock = h
        /\ Trace(h).mode = "flow" =>
             /\ Trace(h).count = field.turns
             /\ \A i : OfThisField(i) => traces[i].count < field.turns
        /\ Trace(h).life = clears
    BY <2>2 DEF Alone, Reads, Busy, Trace
  <2>6. Counted'
    <3>1. \A i : OfThisField(i)' => i \in DOMAIN traces' /\ traces'[i].mode = "flow" /\ traces'[i].life = clears
      BY <2>2 DEF OfThisField, FlowTrace
    <3>2. \A i : OfThisField(i)' => field'.turns >= traces'[i].count
      <4> SUFFICES ASSUME NEW i, OfThisField(i)' PROVE field.turns >= traces'[i].count
        BY <2>2
      <4>1. CASE i \in DOMAIN traces
        BY <2>2, <2>4, <3>1, <4>1 DEF Alone, Counted, OfThisField, FlowTrace
      <4>2. CASE i = Len(traces) + 1
        BY <2>4, <2>5, <3>1, <4>2 DEF TypeOK
      <4> QED BY <2>4, <3>1, <4>1, <4>2
    <3>3. ASSUME NEW i, NEW j, FlowTrace(i)', FlowTrace(j)', i < j, traces'[i].life = traces'[j].life
          PROVE  traces'[i].count < traces'[j].count
      <4>1. i \in DOMAIN traces' /\ j \in DOMAIN traces' /\ traces'[i].mode = "flow" /\ traces'[j].mode = "flow"
        BY <3>3 DEF FlowTrace
      <4>2. i \in DOMAIN traces
        BY <2>4, <3>3, <4>1
      <4>3. CASE j \in DOMAIN traces
        BY <2>4, <3>3, <4>1, <4>2, <4>3 DEF Alone, Counted, FlowTrace
      <4>4. CASE j = Len(traces) + 1
        BY <2>4, <2>5, <3>3, <4>1, <4>2, <4>4 DEF OfThisField, FlowTrace
      <4> QED BY <2>4, <4>1, <4>3, <4>4
    <3> QED BY <3>2, <3>3 DEF Counted
  <2>7. \A i \in DOMAIN traces' : traces'[i].life <= clears'
    BY <2>2, <2>4, <2>5 DEF Alone, TypeOK
  <2>8. \A q \in Handlers : proc'[q].pc \notin Busy
    BY <2>1, <2>5 DEF Alone, Reads, Busy, Procs
  <2>9. \A q \in Handlers : Reads(q)'
    BY <2>8 DEF Reads, Busy
  <2>10. server.up /\ proc'[Chat].pc = "off"
    BY <2>1, <2>2, ProcsAssumption DEF Alone, Procs
  <2> QED BY <2>2, <2>6, <2>7, <2>9, <2>10 DEF Alone
<1>8. ASSUME NEW h \in Handlers, WriteFails(h) PROVE Alone'
  <2>1. proc'[h].pc = "idle" /\ \A q \in Procs \ {h} : proc'[q] = proc[q]
    BY <1>8, RestsIn, ProcsAssumption DEF WriteFails, Procs
  <2>2. lock = h
    BY <1>8 DEF WriteFails, Alone, Reads, Busy
  <2>3. \A q \in Handlers \ {h} : proc[q].pc \notin Busy
    BY <2>2 DEF Alone, Reads
  <2>4. Reads(h)'
    BY <2>1 DEF Reads, Busy
  <2> QED BY <1>8, <2>1, <2>3, <2>4, KeepTurn DEF WriteFails
<1>9. ASSUME NEW h \in Handlers, Publish(h) \/ Put(h) PROVE Alone'
  <2>1. proc'[h].pc \in {"idle", "publish", "put"} /\ \A q \in Procs \ {h} : proc'[q] = proc[q]
    BY <1>9, Publishes
  <2>2. Reads(h)' /\ (~server.up => FALSE)
    BY <1>9, <2>1 DEF Reads, Busy, Publish, Put, Alone
  <2> QED BY <1>9, <2>1, <2>2, KeepTurn DEF Publish, Put
<1>10. ASSUME NEW w \in Watchers, Connect(w) \/ Deliver(w) \/ Hangup(w) PROVE Alone'
  <2>1. UNCHANGED <<server, lock, proc, field, traces, clears>>
    BY <1>10 DEF Connect, Deliver, Hangup
  <2>2. \A h \in Handlers : Reads(h)'
    BY <2>1, ReadsSame DEF Alone
  <2> QED BY <2>1, <2>2, KeepQuiet DEF Alone
<1>11. ASSUME NEW t, Unsubscribe(t) PROVE Alone'
  <2>1. UNCHANGED <<server, lock, proc, field, traces, clears>>
    BY <1>11 DEF Unsubscribe
  <2>2. \A h \in Handlers : Reads(h)'
    BY <2>1, ReadsSame DEF Alone
  <2> QED BY <2>1, <2>2, KeepQuiet DEF Alone
<1>12. CASE Stop
  <2>1. \A h \in Handlers : proc'[h].pc = "idle"
    BY <1>12, Stops
  <2>2. \A h \in Handlers : Reads(h)'
    BY <2>1 DEF Reads, Busy
  <2>3. proc'[Chat] = proc[Chat]
    BY <1>12 DEF Stop, Procs
  <2> QED BY <1>12, <2>1, <2>2, <2>3, KeepQuiet DEF Stop, Alone
<1>13. ASSUME NEW mode \in Modes, NEW new \in BOOLEAN, Start(mode, new) PROVE Alone'
  <2>1. \A h \in Handlers : proc'[h].pc = "idle"
    BY <1>13 DEF Start, Alone
  <2>2. \A h \in Handlers : Reads(h)'
    BY <2>1 DEF Reads, Busy
  <2>3. \/ field' = field /\ clears' = clears
        \/ clears' = clears + 1
    BY <1>13 DEF Start, Clear
  <2>4. /\ \A i \in DOMAIN traces : traces[i].life \in Nat /\ traces[i].life <= clears
        /\ clears \in Nat /\ traces' = traces /\ proc' = proc
    BY <1>13, TracesAre DEF Alone, TypeOK, Start
  <2>5. Counted' /\ \A i \in DOMAIN traces' : traces'[i].life <= clears'
    BY <2>3, <2>4 DEF Alone, Counted, OfThisField, FlowTrace
  <2> QED BY <1>13, <2>1, <2>2, <2>4, <2>5 DEF Start, Alone
<1>14. ~(ChatStep \/ ChatEnd \/ WriteFails(Chat) \/ \E new \in BOOLEAN : ChatStart(new))
  BY DEF Alone, ChatStep, ChatTurn, Exchange, SaveField, ChatTrace, ChatEnd, ChatStart, WriteFails
<1> QED BY <1>1, <1>2, <1>3, <1>4, <1>5, <1>6, <1>7, <1>8, <1>9, <1>10, <1>11, <1>12, <1>13, <1>14
        DEF Next, Step, Procs

(* With no chat process beside it, no integration of the dashboard's turns *)
(* is lost: each traced flow turn counts one more than every earlier one   *)
(* of the same field (run_turn holds _turn_lock around load, inference and *)
(* save, and only a start of the server clears the field).                 *)
THEOREM FieldKept == Spec => []FieldKeepsTurns
BY KeepInit, KeepStep, KeepImplies, PTL DEF Spec

(* --- what a browser was told of is found ------------------------------- *)

Listed(t) == t \in store["pipeline"] \cup store["flow"]
Found(t) == (\E i \in DOMAIN traces : traces[i].turn = t) /\ (server.up => Listed(t))

EventName ==
  {"field_before", "traveled", "field_after", "turn_complete"} \cup {Stages[i] : i \in DOMAIN Stages}
Event == Nat \X EventName
Fields == {"no", "open", "queue", "seen"}
IsConnection(c) == c = [x \in Fields |-> c[x]] /\ c.queue \in Seq(Event)

(* A turn is traced and listed before its first event leaves, so every     *)
(* event on its way is of a turn that is found.                            *)
Broadcasts(h) ==
  proc[h].pc \in {"publish", "put"} =>
    /\ Found(proc[h].turn) /\ proc[h].pos >= 1
    /\ proc[h].pc = "put" => proc[h].pos <= Len(Events(proc[h].mode))

QueuedFound(w) == \A i \in DOMAIN watch[w].queue : Found(watch[w].queue[i][1])

StoreTyped == store = [mode \in BothModes |-> store[mode]]
WatchTyped == watch = [w \in Watchers |-> watch[w]] /\ \A w \in Watchers : IsConnection(watch[w])

FoundInv ==
  /\ StoreTyped /\ WatchTyped
  /\ ~server.up => \A h \in Handlers : proc[h].pc = "idle"
  /\ \A h \in Handlers : Broadcasts(h)
  /\ \A w \in Watchers : QueuedFound(w)
  /\ \A t \in told : Found(t)

LEMMA FoundImplies == FoundInv /\ TypeOK => ToldIsFound
<1> SUFFICES ASSUME FoundInv, TypeOK, NEW t \in told
             PROVE  /\ \E i \in DOMAIN traces : traces[i].turn = t
                    /\ server.up => GetTrace(t) = t
  BY DEF ToldIsFound
<1>1. Found(t)
  BY DEF FoundInv
<1>2. server.mode \in BothModes
  BY DEF TypeOK
<1> QED BY <1>1, <1>2 DEF Found, Listed, GetTrace, Other, BothModes

LEMMA FoundInit == Init => FoundInv
<1> SUFFICES ASSUME Init PROVE FoundInv
  OBVIOUS
<1>1. \A h \in Handlers : proc[h].pc = "idle"
  BY IdleIs, ProcsAssumption DEF Init, Procs
<1>2. StoreTyped
  BY DEF Init, StoreTyped, BothModes
<1>3. IsConnection(Away) /\ Away.queue = <<>>
  BY DEF IsConnection, Away, Fields
<1>4. WatchTyped /\ \A w \in Watchers : QueuedFound(w)
  BY <1>3 DEF Init, WatchTyped, QueuedFound
<1> QED BY <1>1, <1>2, <1>4 DEF Init, FoundInv, Broadcasts

(* The traces and the lists only grow while the server runs.               *)
Grow ==
  /\ \A i \in DOMAIN traces : i \in DOMAIN traces' /\ traces'[i].turn = traces[i].turn
  /\ server'.up => /\ server.up
                   /\ \A mode \in BothModes : store[mode] \subseteq store'[mode]

LEMMA StillFound == ASSUME Grow, NEW t, Found(t) PROVE Found(t)'
BY DEF Grow, Found, Listed, BothModes

(* A step of one turn.                                                     *)
LEMMA FoundTurn ==
  ASSUME FoundInv, Grow, StoreTyped', NEW p \in Procs, UNCHANGED <<server, watch, told>>,
         \A q \in Procs \ {p} : proc'[q] = proc[q],
         p \in Handlers => Broadcasts(p)' /\ (~server.up => proc'[p].pc = "idle")
  PROVE  FoundInv'
<1>1. \A t : Found(t) => Found(t)'
  BY StillFound
<1>2. \A h \in Handlers : Broadcasts(h)'
  <2> SUFFICES ASSUME NEW h \in Handlers, h # p PROVE Broadcasts(h)'
    OBVIOUS
  <2>1. proc'[h] = proc[h]
    BY DEF Procs
  <2> QED BY <1>1, <2>1 DEF FoundInv, Broadcasts
<1>3. WatchTyped' /\ \A w \in Watchers : QueuedFound(w)'
  BY <1>1 DEF FoundInv, WatchTyped, QueuedFound
<1>4. ~server'.up => \A h \in Handlers : proc'[h].pc = "idle"
  BY DEF FoundInv, Procs
<1>5. \A t \in told' : Found(t)'
  BY <1>1 DEF FoundInv
<1> QED BY <1>2, <1>3, <1>4, <1>5 DEF FoundInv

(* A step of the stream: turns, traces and lists stay.                     *)
LEMMA FoundStream ==
  ASSUME FoundInv, UNCHANGED <<server, store, proc, traces>>, WatchTyped',
         \A w \in Watchers : QueuedFound(w)', \A t \in told' : Found(t)
  PROVE  FoundInv'
<1>1. \A t : Found(t)' <=> Found(t)
  BY DEF Found, Listed
<1>2. \A h \in Handlers : Broadcasts(h)'
  BY <1>1 DEF FoundInv, Broadcasts
<1>3. StoreTyped' /\ (~server'.up => \A h \in Handlers : proc'[h].pc = "idle")
  BY DEF FoundInv, StoreTyped
<1> QED BY <1>1, <1>2, <1>3 DEF FoundInv

LEMMA EventsTyped ==
  ASSUME NEW mode
  PROVE  /\ Len(Events(mode)) \in Nat
         /\ \A i \in Nat : i >= 1 /\ i <= Len(Events(mode)) => Events(mode)[i] \in EventName
<1>1. CASE mode = "flow"
  BY <1>1 DEF Events, EventName
<1>2. CASE mode # "flow"
  BY <1>2, DashboardAssumption DEF Events, EventName
<1> QED BY <1>1, <1>2

(* What a connection's queue becomes, its other fields untouched.          *)
LEMMA Requeued ==
  ASSUME WatchTyped, NEW w \in Watchers, NEW q \in Seq(Event),
         watch' = [watch EXCEPT ![w] = [watch[w] EXCEPT !.queue = q]]
  PROVE  WatchTyped' /\ watch'[w].queue = q /\ \A v \in Watchers \ {w} : watch'[v] = watch[v]
<1> DEFINE n == [watch[w] EXCEPT !.queue = q]
<1>1. IsConnection(n) /\ n.queue = q
  BY DEF WatchTyped, IsConnection, Fields
<1> HIDE DEF n
<1>2. watch' = [watch EXCEPT ![w] = n]
  BY DEF n
<1> QED BY <1>1, <1>2 DEF WatchTyped

LEMMA FoundPublish ==
  ASSUME TypeOK, FoundInv, NEW h \in Handlers, Publish(h)
  PROVE  FoundInv'
<1> DEFINE o == proc[h]
<1>1. /\ proc'[h].pc \in {"idle", "publish", "put"}
      /\ proc'[h].pc # "idle" => /\ proc'[h].turn = o.turn /\ proc'[h].mode = o.mode
                                 /\ proc'[h].pos \in {o.pos, o.pos + 1}
      /\ proc'[h].pc = "put" => proc'[h].pos = o.pos /\ ~Done(o)
      /\ \A q \in Procs \ {h} : proc'[q] = proc[q]
  BY Publishes DEF Publish
<1>2. /\ UNCHANGED <<server, store, watch, traces, told>> /\ server.up
      /\ Found(o.turn) /\ o.pos >= 1 /\ o.pos \in Nat
  BY DEF Publish, FoundInv, Broadcasts, TypeOK, ProcsTyped, IsTurn, Procs
<1>3. Grow /\ StoreTyped'
  BY <1>2 DEF Grow, FoundInv, StoreTyped
<1>4. \A t : Found(t) => Found(t)'
  BY <1>3, StillFound
<1>5. ~Done(o) => o.pos <= Len(Events(o.mode))
  BY <1>2, EventsTyped DEF Done
<1>6. Broadcasts(h)'
  <2>1. proc'[h].pc = "put" => proc'[h].pos <= Len(Events(proc'[h].mode))
    BY <1>1, <1>5
  <2>2. proc'[h].pc # "idle" => proc'[h].turn = o.turn /\ proc'[h].pos >= 1
    BY <1>1, <1>2
  <2> QED BY <1>2, <1>4, <2>1, <2>2 DEF Broadcasts
<1>7. h \in Procs
  BY DEF Procs
<1> QED BY <1>1, <1>2, <1>3, <1>6, <1>7, FoundTurn

(* A queue that gets an event of a turn that is found.                     *)
LEMMA PutInto ==
  ASSUME FoundInv, NEW w \in Watchers, NEW e \in Event, Found(e[1]),
         UNCHANGED <<server, store, traces>>,
         watch' = [watch EXCEPT ![w].queue = Append(@, e)]
  PROVE  WatchTyped' /\ \A v \in Watchers : QueuedFound(v)'
<1> DEFINE q == Append(watch[w].queue, e)
<1>1. watch[w].queue \in Seq(Event)
  BY DEF FoundInv, WatchTyped, IsConnection
<1>2. q \in Seq(Event) /\ \A i \in DOMAIN q : q[i] = e \/ (i \in DOMAIN watch[w].queue /\ q[i] = watch[w].queue[i])
  <2> HIDE DEF Event
  <2>1. DOMAIN q = DOMAIN watch[w].queue \cup {Len(q)} /\ q[Len(q)] = e
    BY <1>1
  <2>2. \A i \in DOMAIN watch[w].queue : q[i] = watch[w].queue[i]
    BY <1>1
  <2>3. q \in Seq(Event)
    BY <1>1
  <2> QED BY <2>1, <2>2, <2>3
<1>3. watch' = [watch EXCEPT ![w] = [watch[w] EXCEPT !.queue = q]]
  OBVIOUS
<1> HIDE DEF q
<1>4. WatchTyped' /\ watch'[w].queue = q /\ \A v \in Watchers \ {w} : watch'[v] = watch[v]
  BY <1>2, <1>3, Requeued DEF FoundInv
<1>5. \A t : Found(t) => Found(t)'
  BY DEF Found, Listed
<1>6. QueuedFound(w)'
  <2>1. \A i \in DOMAIN q : Found(q[i][1])
    BY <1>2 DEF FoundInv, QueuedFound
  <2> QED BY <1>4, <1>5, <2>1 DEF QueuedFound
<1>7. \A v \in Watchers \ {w} : QueuedFound(v)'
  BY <1>4, <1>5 DEF FoundInv, QueuedFound
<1> QED BY <1>4, <1>6, <1>7

LEMMA FoundPut ==
  ASSUME TypeOK, FoundInv, NEW h \in Handlers, Put(h)
  PROVE  FoundInv'
<1> DEFINE o == proc[h]
           e == <<o.turn, Events(o.mode)[o.pos]>>
           to == Head(o.todo)
<1>1. /\ proc'[h].pc \in {"idle", "publish", "put"}
      /\ proc'[h].pc # "idle" => /\ proc'[h].turn = o.turn /\ proc'[h].mode = o.mode
                                 /\ proc'[h].pos \in {o.pos, o.pos + 1}
      /\ proc'[h].pc = "put" => proc'[h].pos = o.pos
      /\ \A q \in Procs \ {h} : proc'[q] = proc[q]
  BY Publishes
<1>2. /\ UNCHANGED <<server, store, traces, told>> /\ server.up
      /\ Found(o.turn) /\ o.pos >= 1 /\ o.pos \in Nat /\ o.turn \in Nat
      /\ o.pos <= Len(Events(o.mode))
  BY DEF Put, FoundInv, Broadcasts, TypeOK, ProcsTyped, IsTurn, Procs
<1>3. \A t : Found(t) => Found(t)'
  BY <1>2 DEF Found, Listed
<1>4. Broadcasts(h)'
  <2>1. proc'[h].pc = "put" => proc'[h].pos <= Len(Events(proc'[h].mode))
    BY <1>1, <1>2
  <2>2. proc'[h].pc # "idle" => proc'[h].turn = o.turn /\ proc'[h].pos >= 1
    BY <1>1, <1>2
  <2> QED BY <1>2, <1>3, <2>1, <2>2 DEF Broadcasts
<1>5. \A q \in Handlers : Broadcasts(q)'
  <2> SUFFICES ASSUME NEW q \in Handlers, q # h PROVE Broadcasts(q)'
    BY <1>4
  <2>1. proc'[q] = proc[q]
    BY <1>1 DEF Procs
  <2> QED BY <1>3, <2>1 DEF FoundInv, Broadcasts
<1>6. e \in Event /\ Found(e[1])
  BY <1>2, EventsTyped DEF Event
<1>7. WatchTyped' /\ \A v \in Watchers : QueuedFound(v)'
  <2>1. CASE watch' = watch
    BY <1>3, <2>1 DEF FoundInv, WatchTyped, QueuedFound
  <2>2. CASE watch' = [watch EXCEPT ![to[1]].queue = Append(@, e)]
    <3> HIDE DEF e, to
    <3>1. CASE to[1] \notin Watchers
      <4>1. watch' = watch
        BY <2>2, <3>1 DEF FoundInv, WatchTyped
      <4> QED BY <2>1, <4>1
    <3>2. CASE to[1] \in Watchers
      BY <1>2, <1>6, <2>2, <3>2, PutInto
    <3> QED BY <3>1, <3>2
  <2> QED BY <2>1, <2>2 DEF Put
<1>8. StoreTyped' /\ (\A t \in told' : Found(t)') /\ server'.up
  BY <1>2, <1>3 DEF FoundInv, StoreTyped
<1> QED BY <1>5, <1>7, <1>8 DEF FoundInv

LEMMA FoundStore ==
  ASSUME TypeOK, FoundInv, NEW h \in Handlers, StoreTurn(h)
  PROVE  FoundInv'
<1> DEFINE o == proc[h]
<1>1. /\ proc'[h].pc = "publish" /\ proc'[h].turn = o.turn /\ proc'[h].mode = o.mode
      /\ proc'[h].pos = 1 /\ \A q \in Procs \ {h} : proc'[q] = proc[q]
  BY Stores
<1>2. /\ traces' = Append(traces, Trace(h)) /\ UNCHANGED <<server, watch, told>>
      /\ store' = [store EXCEPT ![o.mode] = @ \cup {o.turn}] /\ server.up
  BY DEF StoreTurn, FoundInv
<1>3. Trace(h) \in TraceRecord /\ traces \in Seq(TraceRecord) /\ o.mode \in BothModes /\ h \in Procs
  BY TraceTyped DEF TypeOK, ProcsTyped, IsTurn, Procs
<1>4. /\ \A i \in DOMAIN traces : i \in DOMAIN traces' /\ traces'[i] = traces[i]
      /\ \E i \in DOMAIN traces' : traces'[i] = Trace(h)
  <2>1. /\ DOMAIN traces' = DOMAIN traces \cup {Len(traces) + 1}
        /\ \A i \in DOMAIN traces : traces'[i] = traces[i]
        /\ traces'[Len(traces) + 1] = Trace(h)
    BY <1>2, <1>3
  <2> QED BY <2>1
<1>5. StoreTyped' /\ o.turn \in store'[o.mode] /\ \A mode \in BothModes : store[mode] \subseteq store'[mode]
  BY <1>2, <1>3 DEF FoundInv, StoreTyped
<1>6. Grow
  BY <1>2, <1>4, <1>5 DEF Grow
<1>7. \A t : t = o.turn => Found(t)'
  <2>1. \E i \in DOMAIN traces' : traces'[i].turn = o.turn
    BY <1>4 DEF Trace
  <2>2. o.turn \in store'["pipeline"] \cup store'["flow"]
    BY <1>3, <1>5 DEF BothModes
  <2> QED BY <2>1, <2>2 DEF Found, Listed
<1>8. Broadcasts(h)'
  BY <1>1, <1>7 DEF Broadcasts
<1> QED BY <1>1, <1>2, <1>3, <1>5, <1>6, <1>8, FoundTurn

LEMMA FoundStep == TypeOK /\ FoundInv /\ [Next]_vars => FoundInv'
<1> SUFFICES ASSUME TypeOK, FoundInv, [Next]_vars PROVE FoundInv'
  OBVIOUS
<1>0. /\ (UNCHANGED <<store, traces, server>> => Grow /\ StoreTyped')
      /\ (UNCHANGED watch => WatchTyped' /\ (UNCHANGED <<store, traces, server>> =>
                                               \A w \in Watchers : QueuedFound(w)'))
      /\ \A h \in Handlers : h \in Procs
  BY DEF Grow, FoundInv, StoreTyped, WatchTyped, QueuedFound, Found, Listed, Procs
<1>1. CASE UNCHANGED vars
  BY <1>0, <1>1, FoundStream DEF vars, FoundInv
<1>2. ASSUME NEW h \in Handlers, NEW line, Post(h, line) PROVE FoundInv'
  <2>1. Broadcasts(h)' /\ server.up
    BY <1>2, Posts DEF Broadcasts, Post
  <2>2. UNCHANGED <<store, traces, server, watch, told>> /\ \A q \in Procs \ {h} : proc'[q] = proc[q]
    BY <1>2, Posts DEF Post
  <2> QED BY <1>0, <2>1, <2>2, FoundTurn
<1>3. ASSUME NEW h \in Handlers, RunTurn(h) PROVE FoundInv'
  <2>1. Begin(h, server.mode, proc[h].line) /\ server.mode \in BothModes /\ server.up
    BY <1>3 DEF RunTurn, TypeOK, FoundInv
  <2>2. Broadcasts(h)' /\ \A q \in Procs \ {h} : proc'[q] = proc[q]
    BY <1>0, <2>1, Begins DEF Broadcasts
  <2>3. UNCHANGED <<store, traces, server, watch, told>>
    BY <1>3 DEF RunTurn
  <2> QED BY <1>0, <2>1, <2>2, <2>3, FoundTurn
<1>4. ASSUME NEW p \in Procs, NEW r, Exchange(p, r) PROVE FoundInv'
  <2>1. UNCHANGED <<store, traces, server, watch, told>> /\ (p \in Handlers => server.up)
    BY <1>4 DEF Exchange, FoundInv
  <2>2. /\ p \in Handlers => Broadcasts(p)'
        /\ \A q \in Procs \ {p} : proc'[q] = proc[q]
    <3>1. CASE ObservationsRaise(proc[p].field, r)
      BY <1>4, <3>1, RestsIn, ProcsAssumption DEF Exchange, Broadcasts
    <3>2. CASE ~ObservationsRaise(proc[p].field, r)
      BY <1>4, <3>2, Exchanges DEF Broadcasts
    <3> QED BY <3>1, <3>2
  <2> QED BY <1>0, <2>1, <2>2, FoundTurn
<1>5. ASSUME NEW p \in Procs, RunPipeline(p) \/ SaveField(p) PROVE FoundInv'
  <2>1. UNCHANGED <<store, traces, server, watch, told>> /\ (p \in Handlers => server.up)
    BY <1>5 DEF RunPipeline, SaveField, FoundInv
  <2>2. /\ p \in Handlers => Broadcasts(p)'
        /\ \A q \in Procs \ {p} : proc'[q] = proc[q]
    BY <1>5, GoesTo DEF RunPipeline, SaveField, Broadcasts
  <2> QED BY <1>0, <2>1, <2>2, FoundTurn
<1>6. ASSUME NEW h \in Handlers, StoreTurn(h) \/ Publish(h) \/ Put(h) PROVE FoundInv'
  BY <1>6, FoundStore, FoundPublish, FoundPut
<1>7. ASSUME NEW line, ChatTurn(line) PROVE FoundInv'
  <2>1. \A q \in Procs \ {Chat} : proc'[q] = proc[q]
    BY <1>7 DEF ChatTurn, Begin, TypeOK, ProcsTyped
  <2>2. UNCHANGED <<store, traces, server, watch, told>> /\ Chat \in Procs
    BY <1>7 DEF ChatTurn, Procs
  <2> QED BY <1>0, <2>1, <2>2, ProcsAssumption, FoundTurn
<1>8. CASE ChatTrace
  <2>1. \A q \in Procs \ {Chat} : proc'[q] = proc[q]
    BY <1>8, ChatTraces
  <2>2. Trace(Chat) \in TraceRecord /\ traces \in Seq(TraceRecord) /\ Chat \in Procs
    BY TraceTyped DEF TypeOK, Procs
  <2>3. traces' = Append(traces, Trace(Chat)) /\ UNCHANGED <<store, server, watch, told>>
    BY <1>8 DEF ChatTrace
  <2>4. \A i \in DOMAIN traces : i \in DOMAIN traces' /\ traces'[i] = traces[i]
    BY <2>2, <2>3
  <2>5. Grow /\ StoreTyped'
    BY <2>3, <2>4 DEF Grow, FoundInv, StoreTyped
  <2> QED BY <2>1, <2>2, <2>3, <2>5, ProcsAssumption, FoundTurn
<1>9. ASSUME NEW p \in Procs, WriteFails(p) PROVE FoundInv'
  <2>1. /\ p \in Handlers => Broadcasts(p)' /\ server.up
        /\ \A q \in Procs \ {p} : proc'[q] = proc[q]
    BY <1>9, RestsIn, ProcsAssumption DEF WriteFails, Broadcasts, FoundInv
  <2>2. StoreTyped' /\ \A mode \in BothModes : store[mode] \subseteq store'[mode]
    BY <1>9 DEF WriteFails, FoundInv, StoreTyped, BothModes
  <2>3. Grow /\ UNCHANGED <<server, watch, told>>
    BY <1>9, <2>2 DEF Grow, WriteFails
  <2> QED BY <2>1, <2>2, <2>3, FoundTurn
<1>10. CASE ChatEnd \/ \E new \in BOOLEAN : ChatStart(new)
  <2>1. UNCHANGED <<store, traces, server, watch, told>> /\ Chat \in Procs
    BY <1>10 DEF ChatEnd, ChatStart, Procs
  <2>2. \A q \in Procs \ {Chat} : proc'[q] = proc[q]
    BY <1>10 DEF ChatEnd, ChatStart, Rest, TypeOK, ProcsTyped
  <2> QED BY <1>0, <2>1, <2>2, ProcsAssumption, FoundTurn
<1>11. ASSUME NEW w \in Watchers, Connect(w) \/ Hangup(w) PROVE FoundInv'
  <2>1. PICK n : /\ watch' = [watch EXCEPT ![w] = n] /\ IsConnection(n)
                 /\ n.queue = <<>> \/ n.queue = watch[w].queue
    <3>1. \A k : IsConnection([Away EXCEPT !.no = k, !.open = TRUE])
      <4> SUFFICES ASSUME NEW k PROVE IsConnection([Away EXCEPT !.no = k, !.open = TRUE])
        OBVIOUS
      <4> DEFINE a == [Away EXCEPT !.no = k, !.open = TRUE]
      <4>1. a = [x \in Fields |-> a[x]]
        BY DEF Away, Fields
      <4>2. a.queue = <<>>
        BY DEF Away
      <4> HIDE DEF a
      <4>3. a.queue \in Seq(Event)
        BY <4>2
      <4> QED BY <4>1, <4>3 DEF IsConnection, a
    <3>2. [Away EXCEPT !.no = watch[w].no + 1, !.open = TRUE].queue = <<>>
      BY DEF Away
    <3>3. IsConnection([watch[w] EXCEPT !.open = FALSE])
          /\ [watch[w] EXCEPT !.open = FALSE].queue = watch[w].queue
      BY DEF FoundInv, WatchTyped, IsConnection, Fields
    <3>4. CASE Connect(w)
      BY <3>1, <3>2, <3>4 DEF Connect
    <3>5. CASE Hangup(w)
      <4>1. watch' = [watch EXCEPT ![w] = [watch[w] EXCEPT !.open = FALSE]]
        BY <3>5 DEF Hangup
      <4> QED BY <3>3, <4>1
    <3> QED BY <1>11, <3>4, <3>5
  <2>2. WatchTyped' /\ watch'[w] = n /\ \A v \in Watchers \ {w} : watch'[v] = watch[v]
    BY <2>1 DEF FoundInv, WatchTyped
  <2>3. UNCHANGED <<server, store, proc, traces, told>>
    BY <1>11 DEF Connect, Hangup
  <2>4. \A v \in Watchers : QueuedFound(v)'
    BY <2>1, <2>2, <2>3 DEF FoundInv, QueuedFound, Found, Listed
  <2> QED BY <2>2, <2>3, <2>4, FoundStream DEF FoundInv
<1>12. ASSUME NEW w \in Watchers, Deliver(w) PROVE FoundInv'
  <2> DEFINE c == watch[w]
             n == [c EXCEPT !.queue = Tail(@), !.seen = Append(@, Head(c.queue))]
  <2>1. c.queue \in Seq(Event) /\ c.queue # <<>> /\ c = [x \in Fields |-> c[x]]
    BY <1>12 DEF Deliver, FoundInv, WatchTyped, IsConnection
  <2>2. /\ Tail(c.queue) \in Seq(Event) /\ Head(c.queue) = c.queue[1] /\ 1 \in DOMAIN c.queue
        /\ \A i \in DOMAIN Tail(c.queue) : i + 1 \in DOMAIN c.queue /\ Tail(c.queue)[i] = c.queue[i + 1]
    BY <2>1
  <2>3. IsConnection(n) /\ n.queue = Tail(c.queue)
    BY <2>1, <2>2 DEF IsConnection, Fields
  <2>4. watch' = [watch EXCEPT ![w] = n]
    BY <1>12 DEF Deliver
  <2>5. told' = told \cup {c.queue[1][1]} /\ UNCHANGED <<server, store, proc, traces>>
    BY <1>12, <2>2 DEF Deliver
  <2> HIDE DEF n
  <2>6. WatchTyped' /\ watch'[w] = n /\ \A v \in Watchers \ {w} : watch'[v] = watch[v]
    BY <2>3, <2>4 DEF FoundInv, WatchTyped
  <2>7. \A i \in DOMAIN c.queue : Found(c.queue[i][1])
    BY DEF FoundInv, QueuedFound
  <2>8. \A t : Found(t) => Found(t)'
    BY <2>5 DEF Found, Listed
  <2>9. QueuedFound(w)'
    BY <2>2, <2>3, <2>6, <2>7, <2>8, ZenonT(30) DEF QueuedFound
  <2>10. \A v \in Watchers : QueuedFound(v)'
    BY <2>6, <2>8, <2>9 DEF FoundInv, QueuedFound
  <2>11. \A t \in told' : Found(t)
    BY <2>2, <2>5, <2>7 DEF FoundInv
  <2> QED BY <2>5, <2>6, <2>10, <2>11, FoundStream
<1>13. ASSUME NEW t, Unsubscribe(t) PROVE FoundInv'
  <2> DEFINE w == t[1]
  <2>1. UNCHANGED <<server, store, proc, traces, told>>
    BY <1>13 DEF Unsubscribe
  <2>2. CASE watch' = watch
    BY <1>0, <2>1, <2>2, FoundStream DEF FoundInv
  <2>3. CASE watch' = [watch EXCEPT ![w].queue = <<>>] /\ w \in Watchers
    <3>1. watch' = [watch EXCEPT ![w] = [watch[w] EXCEPT !.queue = <<>>]] /\ <<>> \in Seq(Event)
      BY <2>3
    <3>2. WatchTyped' /\ watch'[w].queue = <<>> /\ \A v \in Watchers \ {w} : watch'[v] = watch[v]
      BY <2>3, <3>1, Requeued DEF FoundInv
    <3>3. \A v \in Watchers : QueuedFound(v)'
      BY <2>1, <3>2 DEF FoundInv, QueuedFound, Found, Listed
    <3> QED BY <2>1, <3>2, <3>3, FoundStream DEF FoundInv
  <2>4. CASE watch' = [watch EXCEPT ![w].queue = <<>>] /\ w \notin Watchers
    <3>1. watch' = watch
      BY <2>4 DEF FoundInv, WatchTyped
    <3> QED BY <2>2, <3>1
  <2> QED BY <1>13, <2>2, <2>3, <2>4 DEF Unsubscribe
<1>14. CASE Stop
  <2>1. \A h \in Handlers : proc'[h].pc = "idle"
    BY <1>14, Stops
  <2>2. ~server'.up /\ UNCHANGED <<store, traces, told>>
    BY <1>14 DEF Stop, TypeOK
  <2>3. \A w \in Watchers : IsConnection(watch'[w]) /\ watch'[w].queue = <<>>
    <3> SUFFICES ASSUME NEW w \in Watchers PROVE IsConnection(watch'[w]) /\ watch'[w].queue = <<>>
      OBVIOUS
    <3>1. watch'[w] = [watch[w] EXCEPT !.open = FALSE, !.queue = <<>>]
      BY <1>14 DEF Stop
    <3>2. watch[w] = [x \in Fields |-> watch[w][x]]
      BY DEF FoundInv, WatchTyped, IsConnection
    <3>3. watch'[w] = [x \in Fields |-> watch'[w][x]]
      BY <3>1, <3>2 DEF Fields
    <3>4. watch'[w].queue = <<>>
      BY <3>1, <3>2 DEF Fields
    <3>5. watch'[w].queue \in Seq(Event)
      BY <3>4
    <3> QED BY <3>3, <3>4, <3>5 DEF IsConnection
  <2>4. watch' = [w \in Watchers |-> [watch[w] EXCEPT !.open = FALSE, !.queue = <<>>]]
    BY <1>14 DEF Stop
  <2>5. WatchTyped' /\ \A w \in Watchers : QueuedFound(w)'
    <3>1. watch' = [w \in Watchers |-> watch'[w]]
      BY <2>4
    <3> QED BY <2>3, <3>1 DEF WatchTyped, QueuedFound
  <2>6. \A h \in Handlers : Broadcasts(h)'
    BY <2>1 DEF Broadcasts
  <2>7. StoreTyped' /\ \A t \in told' : Found(t)'
    BY <2>2 DEF FoundInv, StoreTyped, Found
  <2> QED BY <2>1, <2>5, <2>6, <2>7 DEF FoundInv
<1>15. ASSUME NEW mode \in Modes, NEW new \in BOOLEAN, Start(mode, new) PROVE FoundInv'
  <2>1. /\ UNCHANGED <<traces, told, proc, watch>> /\ \A h \in Handlers : proc[h].pc = "idle"
        /\ store' = [m \in BothModes |-> LoadExisting(m)]
    BY <1>15 DEF Start, FoundInv, StoreTyped
  <2>2. \A i \in DOMAIN traces : traces[i].turn \in store'["pipeline"] \cup store'["flow"]
    <3> SUFFICES ASSUME NEW i \in DOMAIN traces
                 PROVE  traces[i].turn \in store'["pipeline"] \cup store'["flow"]
      OBVIOUS
    <3>1. traces \in Seq(TraceRecord)
      BY DEF TypeOK
    <3>2. traces[i] \in TraceRecord
      BY <3>1
    <3>3. traces[i].mode \in BothModes
      BY <3>2 DEF TraceRecord
    <3> QED BY <2>1, <3>3 DEF LoadExisting, BothModes
  <2>3. \A t : Found(t) => Found(t)'
    BY <2>1, <2>2 DEF Found, Listed
  <2>4. StoreTyped' /\ WatchTyped'
    BY <2>1 DEF StoreTyped, FoundInv, WatchTyped
  <2>5. \A h \in Handlers : Broadcasts(h)' /\ proc'[h].pc = "idle"
    BY <2>1 DEF Broadcasts
  <2>6. (\A w \in Watchers : QueuedFound(w)') /\ \A t \in told' : Found(t)'
    BY <2>1, <2>3 DEF FoundInv, QueuedFound
  <2> QED BY <2>4, <2>5, <2>6 DEF FoundInv
<1>16. Chat \in Procs
  BY DEF Procs
<1> QED BY <1>0, <1>1, <1>2, <1>3, <1>4, <1>5, <1>6, <1>7, <1>8, <1>9, <1>10, <1>11, <1>12, <1>13,
           <1>14, <1>15, <1>16 DEF Next, Step, ChatStep

(* A turn whose event a browser has read is traced on disk, and GET finds  *)
(* it while a server runs, also one started later in the other mode (the   *)
(* stores list and write a turn before run_turn publishes its events).     *)
THEOREM ToldTurnsAreFound == Spec => []ToldIsFound
BY FoundInit, FoundStep, FoundImplies, DashboardTyped, PTL DEF Spec

(* --- the field stays lean ---------------------------------------------- *)

Upto(I, place, i) == {j \in I : place[j] <= place[i]}
Places(I, place) ==
  (\A i \in I : place[i] \in Int) /\ (\A i, j \in I : place[i] = place[j] => i = j)

(* Every rank is somebody's, and everybody has one.                        *)
LEMMA Ranks ==
  ASSUME NEW I, IsFiniteSet(I), NEW place, Places(I, place)
  PROVE  /\ Cardinality(I) \in Nat
         /\ \A n \in 1..Cardinality(I) : \E i \in I : Cardinality(Upto(I, place, i)) = n
         /\ \A i \in I : Cardinality(Upto(I, place, i)) \in 1..Cardinality(I)
         /\ \A i, j \in I :
              Cardinality(Upto(I, place, i)) = Cardinality(Upto(I, place, j)) => i = j
<1> DEFINE size == Cardinality(I)
           rank == [i \in I |-> Cardinality(Upto(I, place, i))]
<1>1. size \in Nat
  BY FS_CardinalityType
<1>2. \A i \in I : IsFiniteSet(Upto(I, place, i)) /\ Cardinality(Upto(I, place, i)) \in 1..size
  <2> TAKE i \in I
  <2> DEFINE U == Upto(I, place, i)
  <2>1. U \in SUBSET I /\ i \in U
    BY DEF Upto, Places
  <2> HIDE DEF U
  <2>2. IsFiniteSet(U) /\ Cardinality(U) <= size
    BY <2>1, FS_Subset
  <2>3. Cardinality(U) \in Nat /\ Cardinality(U) # 0
    BY <2>1, <2>2, FS_CardinalityType, FS_EmptySet
  <2>4. IsFiniteSet(U) /\ Cardinality(U) \in 1..size
    BY <1>1, <2>2, <2>3
  <2> QED BY <2>4 DEF U
<1>3. ASSUME NEW i \in I, NEW j \in I, place[i] < place[j]
      PROVE  Cardinality(Upto(I, place, i)) # Cardinality(Upto(I, place, j))
  <2>1. Upto(I, place, i) \in SUBSET Upto(I, place, j)
    BY <1>3 DEF Upto, Places
  <2>2. j \in Upto(I, place, j) /\ j \notin Upto(I, place, i)
    BY <1>3 DEF Upto, Places
  <2> QED BY <1>2, <2>1, <2>2, FS_Subset
<1>4. ASSUME NEW i \in I, NEW j \in I,
             Cardinality(Upto(I, place, i)) = Cardinality(Upto(I, place, j))
      PROVE  i = j
  <2>1. ~(place[i] < place[j]) /\ ~(place[j] < place[i])
    BY <1>3, <1>4
  <2> QED BY <2>1 DEF Places
<1>5. rank \in [I -> 1..size] /\ \A i \in I : rank[i] = Cardinality(Upto(I, place, i))
  BY <1>2
<1>6. rank \in Injection(I, 1..size)
  <2>1. \A i, j \in I : rank[i] = rank[j] => i = j
    BY <1>4, <1>5
  <2> HIDE DEF rank
  <2> QED BY <1>5, <2>1 DEF Injection, IsInjective
<1>7. IsFiniteSet(1..size) /\ Cardinality(1..size) = size
  BY <1>1, FS_Interval
<1>8. rank \in Surjection(I, 1..size)
  <2> HIDE DEF rank
  <2> QED BY <1>6, <1>7, FS_Injection
<1>9. \A n \in 1..size : \E i \in I : Cardinality(Upto(I, place, i)) = n
  <2> HIDE DEF rank
  <2> QED BY <1>5, <1>8 DEF Surjection
<1> QED BY <1>1, <1>2, <1>4, <1>9

(* Elements of a field, none of them twice and no two topics on a subject. *)
Distinct(es) ==
  \A i, j \in DOMAIN es : i # j =>
    /\ es[i].id # es[j].id
    /\ ~(Kind(es[i]) = "topic" /\ Kind(es[j]) = "topic" /\ SameTopic(es[i].words, es[j].words))
Tidy(es, turn) == AreMade(es, turn) /\ Distinct(es)

ElementFields == {"id", "words", "bytes", "salience", "momentum", "seen", "streak"}

LEMMA Shape ==
  ASSUME NEW e, NEW turn
  PROVE  IsMade(e, turn) <=>
           /\ e = [x \in ElementFields |-> e[x]]
           /\ e.salience \in Int /\ e.momentum \in Int
           /\ Kind(e) \in {"canonical", "topic"}
           /\ Kind(e) = "topic" => e.id[3] \in Int /\ e.id[3] <= turn
BY DEF IsMade, ElementFields

(* What is taken from a field at distinct places is as tidy as the field.  *)
Takes(a, es, k, from) ==
  /\ a = [n \in 1..k |-> a[n]]
  /\ \A n \in 1..k : from[n] \in DOMAIN es /\ a[n] = es[from[n]]
  /\ \A n, o \in 1..k : from[n] = from[o] => n = o

LEMMA TakenIsTidy ==
  ASSUME NEW turn, NEW es, Tidy(es, turn), NEW k \in Nat, NEW a, NEW from, Takes(a, es, k, from)
  PROVE  Tidy(a, turn) /\ Len(a) = k
<1>1. DOMAIN a = 1..k /\ Len(a) = k
  BY DEF Takes
<1>2. AreMade(a, turn)
  BY <1>1 DEF Takes, Tidy, AreMade
<1>3. Distinct(a)
  BY <1>1 DEF Takes, Tidy, Distinct
<1> QED BY <1>1, <1>2, <1>3 DEF Tidy

LEMMA ArrangedTakes ==
  ASSUME NEW s, Len(s) \in Nat, DOMAIN s = 1..Len(s), NEW I \in SUBSET DOMAIN s, NEW place, Places(I, place)
  PROVE  /\ Cardinality(I) \in Nat
         /\ \E from : /\ Takes(Arranged(s, I, place), s, Cardinality(I), from)
                       /\ \A n \in 1..Cardinality(I) : from[n] \in I
<1> DEFINE Rank(i) == Cardinality(Upto(I, place, i))
           from == [n \in 1..Cardinality(I) |-> CHOOSE i \in I : Rank(i) = n]
           a == Arranged(s, I, place)
<1>1. IsFiniteSet(I)
  <2>1. PICK k \in Nat : k = Len(s)
    OBVIOUS
  <2>2. IsFiniteSet(1..k)
    BY FS_Interval
  <2> QED BY <2>1, <2>2, FS_Subset
<1>2. /\ Cardinality(I) \in Nat
      /\ \A n \in 1..Cardinality(I) : \E i \in I : Rank(i) = n
  BY <1>1, Ranks
<1>3. PICK k \in Nat : k = Cardinality(I)
  BY <1>2
<1>4. \A n \in 1..k : from[n] \in I /\ Rank(from[n]) = n
  <2> TAKE n \in 1..k
  <2> HIDE DEF Rank
  <2>1. from[n] = CHOOSE i \in I : Rank(i) = n
    BY <1>3
  <2>2. \E i \in I : Rank(i) = n
    BY <1>2, <1>3
  <2> QED BY <2>1, <2>2
<1>5. a = [n \in 1..k |-> s[from[n]]]
  BY <1>3 DEF Arranged, Upto
<1> HIDE DEF Rank, from, a
<1>6. a = [n \in 1..k |-> a[n]] /\ \A n \in 1..k : from[n] \in DOMAIN s /\ a[n] = s[from[n]]
  BY <1>4, <1>5
<1>7. \A n, o \in 1..k : from[n] = from[o] => n = o
  BY <1>4
<1>8. Takes(a, s, k, from)
  BY <1>6, <1>7 DEF Takes
<1> QED BY <1>3, <1>4, <1>8 DEF a

LEMMA InOrder ==
  ASSUME NEW k \in Nat, NEW I \in SUBSET (1..k)
  PROVE  Places(I, [i \in I |-> i])
BY DEF Places

PartOf(a, es, I, turn) ==
  Tidy(a, turn) /\ Len(a) \in Nat /\ \A n \in DOMAIN a : \E i \in I : a[n] = es[i]

LEMMA ArrangedIsTidy ==
  ASSUME NEW turn, NEW es, Tidy(es, turn), NEW I \in SUBSET DOMAIN es, NEW place, Places(I, place),
         NEW a, a = Arranged(es, I, place)
  PROVE  PartOf(a, es, I, turn) /\ Len(a) = Cardinality(I)
<1>1. Len(es) \in Nat /\ DOMAIN es = 1..Len(es)
  BY DEF Tidy, AreMade
<1>2. PICK k \in Nat : k = Cardinality(I)
  BY <1>1, ArrangedTakes
<1>3. PICK from : Takes(a, es, k, from) /\ \A n \in 1..k : from[n] \in I
  BY <1>1, <1>2, ArrangedTakes
<1>4. Tidy(a, turn) /\ Len(a) = k
  BY <1>3, TakenIsTidy
<1>5. DOMAIN a = 1..k /\ \A n \in 1..k : a[n] = es[from[n]]
  BY <1>3 DEF Takes
<1> QED BY <1>2, <1>3, <1>4, <1>5 DEF PartOf

LEMMA AtIsTidy ==
  ASSUME NEW turn, NEW es, Tidy(es, turn), NEW I \in SUBSET DOMAIN es, NEW a, a = At(es, I)
  PROVE  PartOf(a, es, I, turn)
<1> DEFINE place == [i \in I |-> i]
<1>1. Places(I, place)
  BY InOrder DEF Tidy, AreMade
<1>2. a = Arranged(es, I, place)
  BY DEF At
<1> HIDE DEF place
<1> QED BY <1>1, <1>2, ArrangedIsTidy

LEMMA PrefixIsTidy ==
  ASSUME NEW turn, NEW es, Tidy(es, turn), NEW k \in Nat, k <= Len(es), NEW a, a = SubSeq(es, 1, k)
  PROVE  PartOf(a, es, DOMAIN es, turn) /\ Len(a) = k
<1> DEFINE from == [n \in 1..k |-> n]
<1>1. /\ a = [n \in 1..k |-> es[n]]
      /\ Len(es) \in Nat /\ DOMAIN es = 1..Len(es)
  BY DEF Tidy, AreMade
<1>2. a = [n \in 1..k |-> a[n]] /\ \A n \in 1..k : from[n] \in DOMAIN es /\ a[n] = es[from[n]]
  BY <1>1
<1>3. \A n, o \in 1..k : from[n] = from[o] => n = o
  OBVIOUS
<1> HIDE DEF from
<1>4. Takes(a, es, k, from)
  BY <1>2, <1>3 DEF Takes
<1>5. Tidy(a, turn) /\ Len(a) = k
  BY <1>4, TakenIsTidy
<1>6. DOMAIN a = 1..k
  BY <1>2
<1>7. \A n \in DOMAIN a : \E i \in DOMAIN es : a[n] = es[i]
  BY <1>2, <1>6
<1> QED BY <1>5, <1>7 DEF PartOf

(* Sorting by score gives every element a place of its own.                *)
NotBehind(es, i) ==
  {j \in DOMAIN es : Score(es[j]) > Score(es[i]) \/ (~(Score(es[i]) > Score(es[j])) /\ j <= i)}

LEMMA ScoresRank ==
  ASSUME NEW turn, NEW es, Tidy(es, turn)
  PROVE  Places(DOMAIN es, [i \in DOMAIN es |-> Cardinality(NotBehind(es, i))])
<1> DEFINE place == [i \in DOMAIN es |-> Cardinality(NotBehind(es, i))]
<1>1. DOMAIN es = 1..Len(es) /\ Len(es) \in Nat /\ \A i \in DOMAIN es : Score(es[i]) \in Int
  BY Shape DEF Tidy, AreMade, Score
<1>2. \A i \in DOMAIN es : IsFiniteSet(NotBehind(es, i)) /\ Cardinality(NotBehind(es, i)) \in Nat
  <2>1. IsFiniteSet(1..Len(es))
    BY <1>1, FS_Interval
  <2> TAKE i \in DOMAIN es
  <2>2. NotBehind(es, i) \in SUBSET (1..Len(es))
    BY <1>1 DEF NotBehind
  <2> QED BY <2>1, <2>2, FS_Subset, FS_CardinalityType
<1>3. ASSUME NEW i \in DOMAIN es, NEW j \in DOMAIN es,
             Score(es[i]) > Score(es[j]) \/ (Score(es[i]) = Score(es[j]) /\ i < j)
      PROVE  Cardinality(NotBehind(es, i)) # Cardinality(NotBehind(es, j))
  <2>1. NotBehind(es, i) \in SUBSET NotBehind(es, j)
    BY <1>1, <1>3 DEF NotBehind
  <2>2. j \in NotBehind(es, j) /\ j \notin NotBehind(es, i)
    BY <1>1, <1>3 DEF NotBehind
  <2> QED BY <1>2, <2>1, <2>2, FS_Subset
<1>4. ASSUME NEW i \in DOMAIN es, NEW j \in DOMAIN es,
             Cardinality(NotBehind(es, i)) = Cardinality(NotBehind(es, j))
      PROVE  i = j
  <2>1. i \in Int /\ j \in Int /\ Score(es[i]) \in Int /\ Score(es[j]) \in Int
    BY <1>1
  <2>2. ~(Score(es[i]) > Score(es[j]) \/ (Score(es[i]) = Score(es[j]) /\ i < j))
    BY <1>3, <1>4
  <2>3. ~(Score(es[j]) > Score(es[i]) \/ (Score(es[j]) = Score(es[i]) /\ j < i))
    BY <1>3, <1>4
  <2> QED BY <2>1, <2>2, <2>3
<1>5. \A i \in DOMAIN es : place[i] = Cardinality(NotBehind(es, i))
  OBVIOUS
<1> HIDE DEF place
<1>6. Places(DOMAIN es, place)
  BY <1>2, <1>4, <1>5 DEF Places
<1> QED BY <1>6 DEF place

(* Eviction leaves a bounded field of elements above the floor.            *)
LEMMA KeptIsLean ==
  ASSUME NEW turn, NEW es, Tidy(es, turn), NEW a, a = Kept(es)
  PROVE  Tidy(a, turn) /\ Lean(a)
<1> DEFINE I == {i \in DOMAIN es : es[i].salience >= IF Kind(es[i]) = "thread" THEN 200 ELSE SalienceFloor}
<1>1. PICK alive : alive = At(es, I)
  OBVIOUS
<1>2. a = IF Len(alive) <= MaxElements THEN alive
          ELSE SubSeq(SortedBy(alive, LAMBDA x, y : Score(x) > Score(y)), 1, MaxElements)
  BY <1>1 DEF Kept, Filter
<1>3. \A i \in I : es[i].salience >= SalienceFloor
  BY Shape DEF Tidy, AreMade
<1>4. I \in SUBSET DOMAIN es
  OBVIOUS
<1> HIDE DEF I
<1>5. PartOf(alive, es, I, turn) /\ Tidy(alive, turn) /\ Len(alive) \in Nat
  BY <1>1, <1>4, AtIsTidy DEF PartOf
<1>6. \A n \in DOMAIN alive : alive[n].salience >= SalienceFloor
  BY <1>3, <1>5 DEF PartOf
<1>7. CASE Len(alive) <= MaxElements
  BY <1>2, <1>5, <1>6, <1>7 DEF Lean, Tidy, Distinct
<1>8. CASE ~(Len(alive) <= MaxElements)
  <2>1. PICK sorted : sorted = Arranged(alive, DOMAIN alive, [i \in DOMAIN alive |-> Cardinality(NotBehind(alive, i))])
    OBVIOUS
  <2>2. a = SubSeq(sorted, 1, MaxElements)
    BY <1>2, <1>8, <2>1 DEF SortedBy, NotBehind
  <2>3. PICK place : place = [i \in DOMAIN alive |-> Cardinality(NotBehind(alive, i))]
    OBVIOUS
  <2>4. Places(DOMAIN alive, place)
    BY <1>5, <2>3, ScoresRank
  <2>5. PartOf(sorted, alive, DOMAIN alive, turn) /\ Len(sorted) = Cardinality(DOMAIN alive)
    BY <1>5, <2>1, <2>3, <2>4, ArrangedIsTidy
  <2>7. Cardinality(DOMAIN alive) = Len(alive)
    <3>1. DOMAIN alive = 1..Len(alive)
      BY <1>5 DEF Tidy, AreMade
    <3>2. PICK k \in Nat : k = Len(alive)
      BY <1>5
    <3>3. Cardinality(1..k) = k
      BY FS_Interval
    <3> QED BY <3>1, <3>2, <3>3
  <2>8. MaxElements \in Nat /\ MaxElements <= Len(sorted)
    BY <1>5, <1>8, <2>5, <2>7, FlowBoundsAssumption
  <2>9. PartOf(a, sorted, DOMAIN sorted, turn) /\ Len(a) = MaxElements
    <3>1. PICK k \in Nat : k = MaxElements
      BY <2>8
    <3>2. k <= Len(sorted) /\ a = SubSeq(sorted, 1, k)
      BY <2>2, <2>8, <3>1
    <3>3. Tidy(sorted, turn)
      BY <2>5 DEF PartOf
    <3> QED BY <3>1, <3>2, <3>3, PrefixIsTidy
  <2>10. \A n \in DOMAIN a : a[n].salience >= SalienceFloor
    BY <1>6, <2>5, <2>9 DEF PartOf
  <2> QED BY <2>8, <2>9, <2>10 DEF Lean, PartOf, Tidy, Distinct
<1> QED BY <1>7, <1>8

(* What a turn does to an element leaves it the element it was.            *)
LEMMA StepsKeepElements ==
  ASSUME NEW e, NEW turn, IsMade(e, turn), NEW m, NEW r,
         NEW f, f \in {Travelled(e, m, r), Dormant(e), Strengthened(e)}
  PROVE  IsMade(f, turn) /\ f.id = e.id /\ f.words = e.words
<1> DEFINE Same(g) == /\ g = [x \in ElementFields |-> g[x]] /\ g.id = e.id /\ g.words = e.words
                      /\ g.salience \in Int /\ g.momentum \in Int
<1>1. /\ e = [x \in ElementFields |-> e[x]] /\ e.salience \in Int /\ e.momentum \in Int
  BY Shape
<1>2. \A x \in Int, q \in {40, 50, 55, 97, 99} : Scaled(x, q) \in Int
  BY DEF Scaled
<1>3. \A x \in Int : Atmost(x + MomentumStep) \in Int
  BY DEF Atmost, MomentumStep, One
<1>4. Same(Strengthened(e))
  BY <1>1, <1>3 DEF Strengthened, ElementFields
<1>5. Same(Dormant(e))
  BY <1>1, <1>2 DEF Dormant, ElementFields
<1>6. Same(Travelled(e, m, r))
  <2> DEFINE repeated == Verbatim(e.words, Texts[r].words)
             continued == r # BlankText /\ (repeated \/ Continues(e.words, Texts[r].words)
                                                     \/ Continues(e.words, Texts[m].words))
             low == IF Scaled(e.salience, 40) < SalienceFloor THEN SalienceFloor ELSE Scaled(e.salience, 40)
             faded == Scaled(e.salience, IF Kind(e) = "thread" THEN 99 ELSE 55)
             again == e.streak + 1
             worn == [e EXCEPT !.salience = low, !.momentum = 0, !.streak = again]
             strong == [Strengthened(e) EXCEPT !.streak = IF repeated THEN @ + 1 ELSE 0]
             left == [e EXCEPT !.salience = faded, !.momentum = Scaled(@, 50), !.streak = 0]
  <2>1. Travelled(e, m, r) =
          IF repeated /\ e.streak >= 1 THEN worn ELSE IF continued THEN strong ELSE left
    BY DEF Travelled
  <2>2. low \in Int /\ faded \in Int
    BY <1>1, <1>2 DEF SalienceFloor
  <2> HIDE DEF low, faded, again, repeated, continued
  <2>3. Same(worn)
    <3>1. worn = [x \in ElementFields |-> IF x = "salience" THEN low ELSE IF x = "momentum" THEN 0
                                          ELSE IF x = "streak" THEN again ELSE e[x]]
      BY <1>1 DEF ElementFields
    <3>2. /\ worn = [x \in ElementFields |-> worn[x]]
          /\ worn.id = e.id /\ worn.words = e.words /\ worn.salience = low /\ worn.momentum = 0
      <4> HIDE DEF worn
      <4> QED BY <3>1 DEF ElementFields
    <3> HIDE DEF worn
    <3> QED BY <2>2, <3>2
  <2>4. Same(strong)
    <3>1. PICK s : s = Strengthened(e)
      OBVIOUS
    <3>2. Same(s)
      BY <1>4, <3>1
    <3> QED BY <3>1, <3>2 DEF ElementFields
  <2>5. Same(left)
    BY <1>1, <1>2, <2>2 DEF ElementFields
  <2> HIDE DEF worn, strong, left
  <2>6. Travelled(e, m, r) \in {worn, strong, left}
    BY <2>1
  <2> HIDE DEF Same
  <2> QED BY <2>3, <2>4, <2>5, <2>6
<1>7. Same(f)
  BY <1>4, <1>5, <1>6
<1>8. f.id = e.id /\ Kind(f) = Kind(e)
  BY <1>7 DEF Kind
<1> QED BY <1>7, <1>8, Shape

(* A new topic is no second one on a subject.                              *)
LEMMA UpsertIsTidy ==
  ASSUME NEW turn, NEW es, Tidy(es, turn), NEW topic, IsMade(topic, turn), Kind(topic) = "topic",
         topic.id \notin IdsOf(es), NEW a, a = UpsertTopic(es, topic)
  PROVE  Tidy(a, turn) /\ IdsOf(a) \subseteq IdsOf(es) \cup {topic.id}
<1> DEFINE same == {i \in DOMAIN es : Kind(es[i]) = "topic" /\ SameTopic(es[i].words, topic.words)}
           k == CHOOSE i \in same : \A j \in same : i <= j
<1>1. a = IF same = {} THEN Append(es, topic) ELSE [es EXCEPT ![k] = Strengthened(@)]
  BY DEF UpsertTopic
<1>2. /\ Len(es) \in Nat /\ DOMAIN es = 1..Len(es) /\ es = [i \in 1..Len(es) |-> es[i]]
      /\ \A i \in DOMAIN es : IsMade(es[i], turn) /\ es[i].id # topic.id
  BY DEF Tidy, AreMade, IdsOf, ToSet
<1>3. \A v, w : SameTopic(v, w) <=> SameTopic(w, v)
  BY DEF SameTopic, Alike
<1>4. CASE same = {}
  <2>1. \A i \in DOMAIN es : ~(Kind(es[i]) = "topic" /\ SameTopic(es[i].words, topic.words))
    BY <1>4
  <2> HIDE DEF same, k
  <2>2. a = Append(es, topic)
    BY <1>1, <1>4
  <2>3. PICK S : es \in Seq(S) /\ topic \in S
    <3>1. es \in Seq({es[i] : i \in DOMAIN es} \cup {topic})
      BY <1>2
    <3> QED BY <3>1
  <2>4. /\ Len(a) \in Nat /\ a = [i \in 1..Len(a) |-> a[i]] /\ DOMAIN a = DOMAIN es \cup {Len(es) + 1}
        /\ a[Len(es) + 1] = topic
        /\ \A i \in DOMAIN es : a[i] = es[i]
    <3>1. /\ a \in Seq(S) /\ Len(a) = Len(es) + 1 /\ a[Len(es) + 1] = topic
          /\ \A i \in 1..Len(es) : a[i] = es[i]
      BY <2>2, <2>3
    <3>2. DOMAIN a = 1..Len(a) /\ a = [i \in 1..Len(a) |-> a[i]]
      BY <3>1
    <3> QED BY <1>2, <3>1, <3>2
  <2>5. AreMade(a, turn)
    BY <1>2, <2>4 DEF AreMade
  <2>6. Distinct(a)
    BY <1>2, <1>3, <2>1, <2>4 DEF Tidy, Distinct
  <2> QED BY <1>2, <2>4, <2>5, <2>6 DEF Tidy, IdsOf, ToSet
<1>5. CASE same # {}
  <2> HIDE DEF same, k
  <2>1. a = [es EXCEPT ![k] = Strengthened(@)]
    BY <1>1, <1>5
  <2>2. DOMAIN a = DOMAIN es /\ Len(a) = Len(es) /\ a = [i \in 1..Len(a) |-> a[i]]
    <3>1. a = [i \in 1..Len(es) |-> IF i = k THEN Strengthened(es[i]) ELSE es[i]]
      BY <1>2, <2>1
    <3> QED BY <1>2, <3>1
  <2>3. ASSUME NEW i \in DOMAIN es PROVE IsMade(a[i], turn) /\ a[i].id = es[i].id /\ a[i].words = es[i].words
    <3>1. a[i] = es[i] \/ a[i] = Strengthened(es[i])
      BY <1>2, <2>1
    <3>2. IsMade(es[i], turn)
      BY <1>2
    <3>3. PICK e : e = es[i]
      OBVIOUS
    <3>4. a[i] = e \/ a[i] \in {Travelled(e, 0, 0), Dormant(e), Strengthened(e)}
      BY <3>1, <3>3
    <3> QED BY <3>2, <3>3, <3>4, StepsKeepElements
  <2>4. AreMade(a, turn)
    BY <1>2, <2>2, <2>3 DEF AreMade
  <2>5. Distinct(a)
    BY <1>2, <2>2, <2>3 DEF Tidy, Distinct, Kind
  <2>6. IdsOf(a) \subseteq IdsOf(es)
    BY <2>2, <2>3 DEF IdsOf, ToSet
  <2> QED BY <2>4, <2>5, <2>6 DEF Tidy
<1> QED BY <1>4, <1>5

LEMMA JoinedIsTidy ==
  ASSUME NEW turn, NEW es, Tidy(es, turn), NEW new, Tidy(new, turn),
         \A i \in DOMAIN new : Kind(new[i]) # "topic" /\ new[i].id \notin IdsOf(es)
  PROVE  /\ Tidy(es \o new, turn) /\ IdsOf(es \o new) = IdsOf(es) \cup IdsOf(new)
         /\ DOMAIN es \subseteq DOMAIN (es \o new) /\ \A i \in DOMAIN es : (es \o new)[i] = es[i]
<1> DEFINE a == es \o new
<1>1. PICK k \in Nat : k = Len(es) /\ DOMAIN es = 1..k
  BY DEF Tidy, AreMade
<1>2. PICK l \in Nat : l = Len(new) /\ DOMAIN new = 1..l
  BY DEF Tidy, AreMade
<1>3. PICK S : es \in Seq(S) /\ new \in Seq(S)
  <2> DEFINE S == {es[i] : i \in 1..k} \cup {new[i] : i \in 1..l}
  <2>1. es \in Seq(S)
    <3>1. es = [i \in 1..k |-> es[i]]
      BY <1>1 DEF Tidy, AreMade
    <3> QED BY <3>1
  <2>2. new \in Seq(S)
    <3>1. new = [i \in 1..l |-> new[i]]
      BY <1>2 DEF Tidy, AreMade
    <3> QED BY <3>1
  <2> HIDE DEF S
  <2> QED BY <2>1, <2>2
<1>4. /\ a \in Seq(S) /\ Len(a) = k + l
      /\ \A i \in 1..k : a[i] = es[i]
      /\ \A i \in 1..l : a[k + i] = new[i]
  BY <1>1, <1>2, <1>3
<1> HIDE DEF a
<1>5. DOMAIN a = 1..(k + l) /\ \A i \in 1..k : i \in 1..(k + l)
  BY <1>4
<1>6. \A i \in DOMAIN a : (i \in 1..k /\ a[i] = es[i]) \/ (i - k \in 1..l /\ a[i] = new[i - k])
  <2> TAKE i \in DOMAIN a
  <2>1. i \in 1..k \/ (i - k \in 1..l /\ k + (i - k) = i)
    BY <1>5
  <2> QED BY <1>4, <2>1
<1>7. AreMade(a, turn)
  <2>1. Len(a) \in Nat /\ a = [i \in 1..Len(a) |-> a[i]]
    BY <1>4
  <2>2. (\A i \in 1..k : IsMade(es[i], turn)) /\ \A i \in 1..l : IsMade(new[i], turn)
    BY <1>1, <1>2 DEF Tidy, AreMade
  <2>3. \A i \in DOMAIN a : IsMade(a[i], turn)
    BY <1>6, <2>2
  <2> QED BY <2>1, <2>3 DEF AreMade
<1>8. ASSUME NEW i \in 1..k, NEW j \in 1..l PROVE es[i].id # new[j].id /\ Kind(new[j]) # "topic"
  <2>1. new[j].id \notin IdsOf(es) /\ Kind(new[j]) # "topic"
    BY <1>2
  <2>2. es[i].id \in IdsOf(es)
    BY <1>1 DEF IdsOf, ToSet
  <2> QED BY <2>1, <2>2
<1>9. Distinct(a)
  <2> SUFFICES ASSUME NEW i \in DOMAIN a, NEW j \in DOMAIN a, i # j
               PROVE  /\ a[i].id # a[j].id
                      /\ ~(Kind(a[i]) = "topic" /\ Kind(a[j]) = "topic" /\ SameTopic(a[i].words, a[j].words))
    BY DEF Distinct
  <2>1. CASE i \in 1..k /\ a[i] = es[i] /\ j \in 1..k /\ a[j] = es[j]
    BY <1>1, <2>1 DEF Tidy, Distinct
  <2>2. CASE i - k \in 1..l /\ a[i] = new[i - k] /\ j - k \in 1..l /\ a[j] = new[j - k]
    <3>1. i - k # j - k
      BY <1>5
    <3> QED BY <1>2, <2>2, <3>1 DEF Tidy, Distinct
  <2>3. CASE i \in 1..k /\ a[i] = es[i] /\ j - k \in 1..l /\ a[j] = new[j - k]
    BY <1>8, <2>3
  <2>4. CASE j \in 1..k /\ a[j] = es[j] /\ i - k \in 1..l /\ a[i] = new[i - k]
    BY <1>8, <2>4
  <2> QED BY <1>6, <2>1, <2>2, <2>3, <2>4
<1>10. IdsOf(a) = IdsOf(es) \cup IdsOf(new)
  <2>1. \A e \in ToSet(a) : e \in ToSet(es) \cup ToSet(new)
    BY <1>1, <1>2, <1>6 DEF ToSet
  <2>2. ASSUME NEW e \in ToSet(es) PROVE e \in ToSet(a)
    <3>1. PICK i \in 1..k : e = es[i]
      BY <1>1 DEF ToSet
    <3>2. i \in DOMAIN a /\ a[i] = e
      BY <1>4, <1>5, <3>1
    <3> QED BY <3>2 DEF ToSet
  <2>4. ASSUME NEW e \in ToSet(new) PROVE e \in ToSet(a)
    <3>1. PICK i \in 1..l : e = new[i]
      BY <1>2 DEF ToSet
    <3>2. k + i \in DOMAIN a /\ a[k + i] = e
      BY <1>4, <1>5, <3>1
    <3> QED BY <3>2 DEF ToSet
  <2> QED BY <2>1, <2>2, <2>4 DEF IdsOf
<1>11. DOMAIN es \subseteq DOMAIN a /\ \A i \in DOMAIN es : a[i] = es[i]
  BY <1>1, <1>4, <1>5
<1> QED BY <1>7, <1>9, <1>10, <1>11 DEF Tidy, a

IsName(id, turn) ==
  id[1] \in {"canonical", "topic"} /\ (id[1] = "topic" => id[3] \in Int /\ id[3] <= turn)

LEMMA NewElementIsMade ==
  ASSUME NEW turn, NEW id, IsName(id, turn), NEW words, NEW bytes,
         NEW e, e = FlowElement(id, words, bytes, NewSalience, 1)
  PROVE  IsMade(e, turn) /\ e.id = id /\ e.words = words
<1>1. /\ e = [id |-> id, words |-> words, bytes |-> bytes, salience |-> 5000, momentum |-> 0,
              seen |-> 1, streak |-> 0]
  BY DEF FlowElement, NewSalience
<1>2. /\ e.id = id /\ e.words = words /\ e.bytes = bytes /\ e.salience = 5000 /\ e.momentum = 0
      /\ e.seen = 1 /\ e.streak = 0
  BY <1>1
<1>3. e.salience \in Int /\ e.momentum \in Int
  BY <1>2
<1>4. e = [id |-> e.id, words |-> e.words, bytes |-> e.bytes, salience |-> e.salience,
          momentum |-> e.momentum, seen |-> e.seen, streak |-> e.streak]
  BY <1>1, <1>2
<1>5. Kind(e) = id[1] /\ e.id[3] = id[3]
  BY <1>2 DEF Kind
<1> QED BY <1>2, <1>3, <1>4, <1>5 DEF IsMade, IsName

(* Relevant canonical state joins once.                                    *)
LEMMA MaterializedIsTidy ==
  ASSUME NEW turn, NEW es, Tidy(es, turn), NEW m, NEW a, a = Materialized(es, m)
  PROVE  /\ Tidy(a, turn)
         /\ DOMAIN es \subseteq DOMAIN a /\ \A i \in DOMAIN es : a[i] = es[i]
         /\ \A id \in IdsOf(a) : id \in IdsOf(es) \/ id[1] = "canonical"
<1> DEFINE numbers == RelevantCanonical(m)
           all == [i \in DOMAIN Canonical |-> i]
           J == {i \in DOMAIN all : all[i] \in Relevant[m]}
           given == AsElements(numbers, NewSalience, 1)
           I == {i \in DOMAIN given : given[i].id \notin IdsOf(es)}
           new == At(given, I)
<1>1. a = es \o new
  BY DEF Materialized, Filter
<1>2. PICK k \in Nat : DOMAIN numbers = 1..k /\ \A i, j \in 1..k : numbers[i] = numbers[j] => i = j
  <2>1. numbers = Arranged(all, J, [i \in J |-> i])
    BY DEF RelevantCanonical, Filter, At
  <2>2. PICK l \in Nat : DOMAIN Canonical = 1..l
    BY FlowBoundsAssumption
  <2>3. Len(all) = l /\ DOMAIN all = 1..l /\ \A i \in 1..l : all[i] = i
    BY <2>2
  <2>4. J \in SUBSET (1..l)
    BY <2>3
  <2> HIDE DEF J, all, numbers
  <2>5. Places(J, [i \in J |-> i])
    BY <2>4, InOrder
  <2>6. PICK place : place = [i \in J |-> i]
    OBVIOUS
  <2>7. PICK n \in Nat : n = Cardinality(J)
    BY <2>3, <2>4, <2>5, ArrangedTakes
  <2>8. PICK from : Takes(numbers, all, n, from)
    BY <2>1, <2>3, <2>4, <2>5, <2>6, <2>7, ArrangedTakes
  <2>9. DOMAIN numbers = 1..n /\ \A i \in 1..n : from[i] \in 1..l /\ numbers[i] = from[i]
    BY <2>3, <2>8 DEF Takes
  <2>10. \A i, j \in 1..n : numbers[i] = numbers[j] => i = j
    BY <2>8, <2>9 DEF Takes
  <2> QED BY <2>9, <2>10
<1> HIDE DEF numbers
<1>3. /\ given = [i \in 1..k |-> given[i]] /\ DOMAIN given = 1..k /\ Len(given) = k
      /\ \A i \in 1..k : given[i] = FlowElement(<<"canonical", "", numbers[i]>>, Canonical[numbers[i]].words,
                                                Canonical[numbers[i]].bytes, NewSalience, 1)
  BY <1>2 DEF AsElements
<1> HIDE DEF given
<1>4. ASSUME NEW i \in 1..k
      PROVE  /\ IsMade(given[i], turn) /\ given[i].id = <<"canonical", "", numbers[i]>>
             /\ Kind(given[i]) = "canonical"
  <2>1. PICK id : id = <<"canonical", "", numbers[i]>>
    OBVIOUS
  <2>2. id[1] \in {"canonical", "topic"} /\ id[1] # "topic" /\ id[1] = "canonical"
    BY <2>1
  <2>3. PICK words, bytes, e : e = given[i] /\ e = FlowElement(id, words, bytes, NewSalience, 1)
    BY <1>3, <2>1
  <2>4. IsName(id, turn)
    BY <2>2 DEF IsName
  <2>5. e = FlowElement(id, words, bytes, NewSalience, 1)
    BY <2>3
  <2>6. IsMade(e, turn) /\ e.id = id
    BY <2>4, <2>5, NewElementIsMade
  <2> QED BY <2>1, <2>2, <2>3, <2>6 DEF Kind
<1>5. AreMade(given, turn)
  BY <1>3, <1>4 DEF AreMade
<1>6. Distinct(given)
  <2> SUFFICES ASSUME NEW i \in 1..k, NEW j \in 1..k, i # j
               PROVE  given[i].id # given[j].id /\ Kind(given[i]) # "topic"
    BY <1>3 DEF Distinct
  <2>1. numbers[i] # numbers[j]
    BY <1>2
  <2>2. <<"canonical", "", numbers[i]>> # <<"canonical", "", numbers[j]>>
    BY <2>1
  <2> QED BY <1>4, <2>2
<1>7. \A i \in I : given[i].id \notin IdsOf(es) /\ Kind(given[i]) = "canonical"
  BY <1>3, <1>4
<1>8. I \in SUBSET DOMAIN given
  OBVIOUS
<1> HIDE DEF I, new
<1>9. PartOf(new, given, I, turn)
  BY <1>5, <1>6, <1>8, AtIsTidy DEF Tidy, new
<1>10. /\ Tidy(new, turn)
       /\ \A i \in DOMAIN new : Kind(new[i]) = "canonical" /\ new[i].id \notin IdsOf(es)
  BY <1>7, <1>9 DEF PartOf
<1>11. \A i \in DOMAIN new : Kind(new[i]) # "topic"
  BY <1>10
<1>12. /\ Tidy(es \o new, turn) /\ IdsOf(es \o new) = IdsOf(es) \cup IdsOf(new)
       /\ DOMAIN es \subseteq DOMAIN (es \o new) /\ \A i \in DOMAIN es : (es \o new)[i] = es[i]
  BY <1>10, <1>11, JoinedIsTidy
<1>13. \A id \in IdsOf(new) : id[1] = "canonical"
  BY <1>10 DEF IdsOf, ToSet, Kind
<1> QED BY <1>1, <1>12, <1>13

LEMMA LaterIsMade ==
  ASSUME NEW turn \in Int, NEW later \in Int, turn <= later, NEW es, AreMade(es, turn)
  PROVE  AreMade(es, later)
<1>1. ASSUME NEW e, IsMade(e, turn) PROVE IsMade(e, later)
  BY <1>1 DEF IsMade
<1> QED BY <1>1 DEF AreMade

(* One exchange keeps the field lean: the topics it makes are new by the   *)
(* turn they are dated with.                                               *)
LEMMA IntegrationIsLean ==
  ASSUME NEW turn \in Int, NEW f, Tidy(f.elements, turn - 1), NEW live, NEW m, NEW r,
         NEW es, es = IntegrateField(f, live, m, r, turn).elements
  PROVE  Tidy(es, turn) /\ Lean(es)
<1> DEFINE stepped == [i \in DOMAIN f.elements |->
                         LET e == f.elements[i]
                         IN  IF e.id \in IdsOf(live) THEN Travelled(e, m, r) ELSE Dormant(e)]
           relevant == Materialized(f.elements, m)
           arrived == [i \in DOMAIN relevant |->
                         IF i \in DOMAIN stepped THEN stepped[i]
                         ELSE IF relevant[i].id \in IdsOf(live) THEN relevant[i] ELSE Dormant(relevant[i])]
           line == Topic(m, "human", turn)
           reply == Topic(r, "model", turn)
           heard == UpsertTopic(arrived, line)
           spoken == IF r = BlankText \/ SameTopic(Texts[r].words, Texts[m].words) THEN heard
                     ELSE UpsertTopic(heard, reply)
<1>1. es = Kept(spoken)
  BY DEF IntegrateField
<1>2. Tidy(f.elements, turn)
  <2>1. turn - 1 \in Int /\ turn - 1 <= turn
    OBVIOUS
  <2>2. AreMade(f.elements, turn)
    BY <2>1, LaterIsMade DEF Tidy
  <2> QED BY <2>2 DEF Tidy
<1>3. \A id \in IdsOf(f.elements) : id[1] = "canonical" \/ (id[3] \in Int /\ id[3] <= turn - 1)
  <2> TAKE id \in IdsOf(f.elements)
  <2>1. PICK i \in DOMAIN f.elements : id = f.elements[i].id
    BY DEF IdsOf, ToSet
  <2>2. PICK e : e = f.elements[i]
    OBVIOUS
  <2>3. IsMade(e, turn - 1)
    BY <2>2 DEF Tidy, AreMade
  <2>4. e.id[1] \in {"canonical", "topic"} /\ (e.id[1] = "topic" => e.id[3] \in Int /\ e.id[3] <= turn - 1)
    BY <2>3 DEF IsMade, Kind
  <2> QED BY <2>1, <2>2, <2>4
<1>4. /\ Tidy(relevant, turn)
      /\ DOMAIN f.elements \subseteq DOMAIN relevant
      /\ \A i \in DOMAIN f.elements : relevant[i] = f.elements[i]
      /\ \A id \in IdsOf(relevant) : id \in IdsOf(f.elements) \/ id[1] = "canonical"
  <2> HIDE DEF relevant
  <2>1. PICK els : els = f.elements
    OBVIOUS
  <2>2. relevant = Materialized(els, m)
    BY <2>1 DEF relevant
  <2> QED BY <1>2, <2>1, <2>2, MaterializedIsTidy
<1>5. \A id \in IdsOf(relevant) : id[1] = "canonical" \/ (id[3] \in Int /\ id[3] <= turn - 1)
  BY <1>3, <1>4
<1>6. \A i \in DOMAIN relevant : arrived[i] \in {Travelled(relevant[i], m, r), Dormant(relevant[i]), relevant[i]}
  <2> HIDE DEF relevant
  <2> QED BY <1>4
<1>7. DOMAIN arrived = DOMAIN relevant /\ arrived = [i \in DOMAIN relevant |-> arrived[i]]
  OBVIOUS
<1> HIDE DEF stepped, relevant, arrived, heard, spoken, line, reply
<1>8. ASSUME NEW i \in DOMAIN relevant
      PROVE  IsMade(arrived[i], turn) /\ arrived[i].id = relevant[i].id /\ arrived[i].words = relevant[i].words
  <2>1. PICK e, g : e = relevant[i] /\ g = arrived[i]
    OBVIOUS
  <2>2. IsMade(e, turn)
    BY <1>4, <2>1 DEF Tidy, AreMade
  <2>3. g = e \/ g \in {Travelled(e, m, r), Dormant(e), Strengthened(e)}
    BY <1>6, <2>1
  <2> QED BY <2>1, <2>2, <2>3, StepsKeepElements
<1>9. Tidy(arrived, turn) /\ IdsOf(arrived) \subseteq IdsOf(relevant)
  <2>1. PICK k \in Nat : k = Len(relevant) /\ DOMAIN relevant = 1..k
    BY <1>4 DEF Tidy, AreMade
  <2>2. arrived = [i \in 1..k |-> arrived[i]]
    BY <1>7, <2>1
  <2>3. DOMAIN arrived = 1..k /\ Len(arrived) = k
    BY <2>2
  <2>4. AreMade(arrived, turn)
    BY <1>8, <2>1, <2>2, <2>3 DEF AreMade
  <2>5. Distinct(arrived)
    BY <1>4, <1>8, <2>1, <2>3 DEF Tidy, Distinct, Kind
  <2>6. IdsOf(arrived) \subseteq IdsOf(relevant)
    BY <1>8, <2>1, <2>3 DEF IdsOf, ToSet
  <2> QED BY <2>4, <2>5, <2>6 DEF Tidy
<1>10. /\ IsMade(line, turn) /\ line.id = <<"topic", "human", turn>> /\ Kind(line) = "topic"
       /\ IsMade(reply, turn) /\ reply.id = <<"topic", "model", turn>> /\ Kind(reply) = "topic"
  <2>1. ASSUME NEW t, NEW source, NEW e, e = Topic(t, source, turn)
        PROVE  IsMade(e, turn) /\ e.id = <<"topic", source, turn>> /\ Kind(e) = "topic"
    <3>1. PICK id : id = <<"topic", source, turn>>
      OBVIOUS
    <3>2. IsName(id, turn)
      BY <3>1 DEF IsName
    <3>3. PICK words, bytes : e = FlowElement(id, words, bytes, NewSalience, 1)
      BY <2>1, <3>1 DEF Topic
    <3>4. IsMade(e, turn) /\ e.id = id
      BY <3>2, <3>3, NewElementIsMade
    <3> QED BY <3>1, <3>2, <3>4 DEF Kind
  <2> QED BY <2>1 DEF line, reply
<1>11. line.id \notin IdsOf(arrived) /\ reply.id \notin IdsOf(arrived) /\ reply.id # line.id
  <2>1. \A source : <<"topic", source, turn>>[1] = "topic" /\ <<"topic", source, turn>>[3] = turn
    OBVIOUS
  <2>2. \A source : <<"topic", source, turn>> \notin IdsOf(relevant)
    BY <1>5, <2>1
  <2> QED BY <1>9, <1>10, <2>2
<1>12. Tidy(heard, turn) /\ IdsOf(heard) \subseteq IdsOf(arrived) \cup {line.id}
  BY <1>9, <1>10, <1>11, UpsertIsTidy DEF heard
<1>13. reply.id \notin IdsOf(heard)
  BY <1>11, <1>12
<1>14. Tidy(UpsertTopic(heard, reply), turn)
  BY <1>10, <1>12, <1>13, UpsertIsTidy
<1>15. Tidy(spoken, turn)
  BY <1>12, <1>14 DEF spoken
<1> QED BY <1>1, <1>15, KeptIsLean

(* A field that no topic of a later turn is in, with what FieldIsLean says.*)
Fine(f, turn) == Tidy(f.elements, turn) /\ Lean(f.elements)

LEMMA FineLater ==
  ASSUME NEW turn \in Int, NEW later \in Int, turn <= later, NEW f, Fine(f, turn)
  PROVE  Fine(f, later)
<1>1. PICK es : es = f.elements
  OBVIOUS
<1>2. AreMade(es, later)
  BY <1>1, LaterIsMade DEF Fine, Tidy
<1> QED BY <1>1, <1>2 DEF Fine, Tidy

LEMMA NothingIsFine == ASSUME NEW turn, NEW f, f.elements = <<>> PROVE Fine(f, turn)
<1>1. AreMade(<<>>, turn)
  <2>1. Len(<<>>) = 0 /\ DOMAIN <<>> = {} /\ <<>> = [i \in 1..0 |-> <<>>[i]]
    OBVIOUS
  <2> QED BY <2>1 DEF AreMade
<1>2. Distinct(<<>>) /\ Lean(<<>>)
  BY FlowBoundsAssumption DEF Distinct, Lean
<1> QED BY <1>1, <1>2 DEF Fine, Tidy

(* Every field, on disk or in a turn's hands, is dated before the turn     *)
(* that may add to it, so the topics a turn makes have ids of their own.   *)
Held(q) ==
  /\ proc[q].pc \in {"infer", "save"} => proc[q].turn <= turns
  /\ proc[q].pc = "infer" /\ proc[q].mode = "flow" => Fine(proc[q].field, proc[q].turn - 1)
  /\ proc[q].pc = "save" => Fine(proc[q].field, proc[q].turn)

LeanInv == Fine(field, turns) /\ \A q \in Procs : Held(q)

LEMMA LeanInit == Init => LeanInv
<1> SUFFICES ASSUME Init PROVE LeanInv
  OBVIOUS
<1>1. turns = 0 /\ AreMade(field.elements, 0) /\ Lean(field.elements)
  BY EarlierFieldAssumption DEF Init
<1>2. Fine(field, turns)
  BY <1>1 DEF Fine, Tidy, Distinct, Lean
<1>3. \A q \in Procs : proc[q].pc \notin {"infer", "save"}
  BY OffIs, IdleIs DEF Init
<1> QED BY <1>2, <1>3 DEF LeanInv, Held

(* A step of one turn, or of none.                                         *)
LEMMA LeanOther ==
  ASSUME TypeOK, LeanInv, turns' \in Int, turns' >= turns, NEW q \in Procs, proc'[q] = proc[q]
  PROVE  Held(q)'
<1>1. Held(q) /\ proc[q].turn \in Nat /\ turns \in Nat
  BY DEF LeanInv, TypeOK, ProcsTyped, IsTurn
<1> QED BY <1>1 DEF Held

LEMMA LeanTurn ==
  ASSUME TypeOK, LeanInv, NEW p \in Procs, \A q \in Procs \ {p} : proc'[q] = proc[q],
         turns' = turns, field' = field, Held(p)'
  PROVE  LeanInv'
<1>1. \A q \in Procs \ {p} : Held(q)'
  BY LeanOther DEF TypeOK
<1> QED BY <1>1 DEF LeanInv

LEMMA LeanBegin ==
  ASSUME TypeOK, LeanInv, NEW p \in Procs, NEW mode \in BothModes, NEW line, Begin(p, mode, line),
         field' = field
  PROVE  LeanInv'
<1>1. /\ proc'[p].pc = "infer" /\ proc'[p].mode = mode /\ proc'[p].turn = turns + 1
      /\ mode = "flow" => proc'[p].field = Loaded
      /\ \A q \in Procs \ {p} : proc'[q] = proc[q]
  BY Begins
<1>2. turns' = turns + 1 /\ turns \in Nat
  BY DEF Begin, TypeOK
<1>3. Fine(field', turns')
  BY <1>2, FineLater DEF LeanInv
<1>4. Fine(Loaded, turns)
  BY NothingIsFine DEF LeanInv, Loaded, FreshField
<1>5. turns' - 1 = turns /\ turns + 1 - 1 = turns
  BY <1>2
<1>6. Held(p)'
  BY <1>1, <1>2, <1>4, <1>5 DEF Held
<1>7. \A q \in Procs \ {p} : Held(q)'
  BY <1>1, <1>2, LeanOther
<1> QED BY <1>3, <1>6, <1>7 DEF LeanInv

LEMMA LeanExchange ==
  ASSUME TypeOK, LeanInv, NEW p \in Procs, NEW r, Exchange(p, r)
  PROVE  LeanInv'
<1>1. UNCHANGED <<turns, field>>
  BY DEF Exchange
<1>2. CASE ObservationsRaise(proc[p].field, r)
  <2>1. Rest(p)
    BY <1>2 DEF Exchange
  <2>2. proc'[p].pc \notin {"infer", "save"} /\ \A q \in Procs \ {p} : proc'[q] = proc[q]
    BY <2>1, RestsIn
  <2>3. Held(p)'
    BY <2>2 DEF Held
  <2> QED BY <1>1, <2>2, <2>3, LeanTurn
<1>3. CASE ~ObservationsRaise(proc[p].field, r)
  <2>1. /\ proc'[p].pc = "save" /\ proc'[p].turn = proc[p].turn
        /\ proc'[p].field = IntegrateField(proc[p].field, proc[p].live, proc[p].line, r, proc[p].turn)
        /\ \A q \in Procs \ {p} : proc'[q] = proc[q]
    BY <1>3, Exchanges
  <2>2. /\ proc[p].turn \in Int /\ proc[p].turn <= turns
        /\ Fine(proc[p].field, proc[p].turn - 1)
    BY DEF Exchange, LeanInv, Held, TypeOK, ProcsTyped, IsTurn
  <2>3. PICK f, live, line, turn, es :
          /\ f = proc[p].field /\ live = proc[p].live /\ line = proc[p].line /\ turn = proc[p].turn
          /\ es = IntegrateField(f, live, line, r, turn).elements
    OBVIOUS
  <2>4. turn \in Int /\ Tidy(f.elements, turn - 1)
    BY <2>2, <2>3 DEF Fine
  <2>5. es = IntegrateField(f, live, line, r, turn).elements
    BY <2>3
  <2>6. Tidy(es, turn) /\ Lean(es)
    BY <2>4, <2>5, IntegrationIsLean
  <2>7. proc'[p].field.elements = es
    BY <2>1, <2>3
  <2>8. Held(p)'
    BY <1>1, <2>1, <2>2, <2>3, <2>6, <2>7 DEF Held, Fine
  <2> QED BY <1>1, <2>1, <2>8, LeanTurn
<1> QED BY <1>2, <1>3

LEMMA LeanSave ==
  ASSUME TypeOK, LeanInv, NEW p \in Procs, SaveField(p)
  PROVE  LeanInv'
<1>1. /\ proc'[p].pc = "trace" /\ \A q \in Procs \ {p} : proc'[q] = proc[q]
  BY GoesTo DEF SaveField
<1>2. /\ proc[p].turn \in Int /\ turns \in Int /\ proc[p].turn <= turns
      /\ Fine(proc[p].field, proc[p].turn)
  BY DEF SaveField, LeanInv, Held, TypeOK, ProcsTyped, IsTurn
<1>3. field' = proc[p].field /\ turns' = turns
  BY DEF SaveField
<1>4. Fine(field', turns')
  BY <1>2, <1>3, FineLater
<1>5. Held(p)'
  BY <1>1 DEF Held
<1>6. \A q \in Procs \ {p} : Held(q)'
  BY <1>1, <1>2, <1>3, LeanOther
<1> QED BY <1>4, <1>5, <1>6 DEF LeanInv

(* A step that touches no turn in progress, and clears the field at most.  *)
LEMMA LeanApart ==
  ASSUME TypeOK, LeanInv, turns' = turns, field' \in {field, NoFile},
         \A q \in Procs : proc'[q] = proc[q] \/ proc'[q].pc \notin {"infer", "save"}
  PROVE  LeanInv'
<1>1. Fine(field', turns')
  BY NothingIsFine DEF LeanInv, NoFile
<1>2. ASSUME NEW q \in Procs PROVE Held(q)'
  <2>1. CASE proc'[q] = proc[q]
    BY <2>1, LeanOther DEF TypeOK
  <2>2. CASE proc'[q].pc \notin {"infer", "save"}
    BY <2>2 DEF Held
  <2> QED BY <1>2, <2>1, <2>2
<1> QED BY <1>1, <1>2 DEF LeanInv

LEMMA LeanStep == TypeOK /\ LeanInv /\ [Next]_vars => LeanInv'
<1> SUFFICES ASSUME TypeOK, LeanInv, [Next]_vars PROVE LeanInv'
  OBVIOUS
<1>1. CASE UNCHANGED vars
  BY <1>1, LeanApart DEF vars
<1>2. ASSUME NEW h \in Handlers, NEW line, Post(h, line) PROVE LeanInv'
  BY <1>2, Posts, LeanApart DEF Post, Procs
<1>3. ASSUME NEW h \in Handlers, RunTurn(h) PROVE LeanInv'
  <2>1. Begin(h, server.mode, proc[h].line) /\ server.mode \in BothModes /\ field' = field
    BY <1>3 DEF RunTurn, TypeOK
  <2> QED BY <2>1, LeanBegin DEF Procs
<1>4. ASSUME NEW line, ChatTurn(line) PROVE LeanInv'
  BY <1>4, LeanBegin DEF ChatTurn, BothModes, Procs
<1>5. ASSUME NEW p \in Procs, NEW r, Exchange(p, r) PROVE LeanInv'
  BY <1>5, LeanExchange
<1>6. ASSUME NEW h \in Handlers, RunPipeline(h) PROVE LeanInv'
  BY <1>6, GoesTo, LeanApart DEF RunPipeline, Procs
<1>7. ASSUME NEW p \in Procs, SaveField(p) PROVE LeanInv'
  BY <1>7, LeanSave
<1>8. ASSUME NEW h \in Handlers, StoreTurn(h) PROVE LeanInv'
  BY <1>8, Stores, LeanApart DEF StoreTurn, Procs
<1>9. CASE ChatTrace
  BY <1>9, ChatTraces, LeanApart DEF ChatTrace
<1>10. ASSUME NEW p \in Procs, WriteFails(p) \/ (p = Chat /\ ChatEnd) PROVE LeanInv'
  BY <1>10, RestsIn, LeanApart DEF WriteFails, ChatEnd
<1>11. ASSUME NEW h \in Handlers, Publish(h) \/ Put(h) PROVE LeanInv'
  BY <1>11, Publishes, LeanApart DEF Publish, Put
<1>12. ASSUME NEW w \in Watchers, Connect(w) \/ Deliver(w) \/ Hangup(w) PROVE LeanInv'
  BY <1>12, LeanApart DEF Connect, Deliver, Hangup
<1>13. ASSUME NEW t, Unsubscribe(t) PROVE LeanInv'
  BY <1>13, LeanApart DEF Unsubscribe
<1>14. CASE Stop
  <2>1. UNCHANGED <<turns, field>> /\ proc'[Chat] = proc[Chat]
    BY <1>14 DEF Stop, Procs
  <2>2. \A h \in Handlers : proc'[h].pc = "idle"
    BY <1>14, Stops
  <2> QED BY <2>1, <2>2, LeanApart DEF Procs
<1>15. ASSUME NEW mode \in Modes, NEW new \in BOOLEAN, Start(mode, new) PROVE LeanInv'
  BY <1>15, LeanApart DEF Start, Clear
<1>16. ASSUME NEW new \in BOOLEAN, ChatStart(new) PROVE LeanInv'
  <2>1. Goto(Chat, "idle") /\ turns' = turns /\ field' \in {field, NoFile} /\ Chat \in Procs
    BY <1>16 DEF ChatStart, Goto, Clear, Procs
  <2>2. proc'[Chat].pc = "idle" /\ \A q \in Procs \ {Chat} : proc'[q] = proc[q]
    BY <2>1, GoesTo
  <2> QED BY <2>1, <2>2, LeanApart
<1> QED BY <1>1, <1>2, <1>3, <1>4, <1>5, <1>6, <1>7, <1>8, <1>9, <1>10, <1>11, <1>12, <1>13, <1>14,
           <1>15, <1>16 DEF Next, Step, ChatStep, Procs

(* Whatever the request threads and a chat process that share the field    *)
(* do, with clears, failed writes and stops in between: the field on disk  *)
(* is bounded, has no element twice and none below its floor, and never    *)
(* two topics on one subject (flow.integrate_field, over any history).     *)
THEOREM FieldsAreLean == Spec => []FieldIsLean
<1>1. LeanInv => FieldIsLean
  BY DEF LeanInv, Fine, FieldIsLean
<1> QED BY <1>1, LeanInit, LeanStep, DashboardTyped, PTL DEF Spec
==============================================================================
