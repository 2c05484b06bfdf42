------------------------------ MODULE Dashboard ------------------------------
(***************************************************************************)
(* One `ck dashboard` process with its request threads, turn stores and    *)
(* event stream, the `ck chat --mode flow` process that may share its      *)
(* directories, and the browsers watching.  In pipeline mode a turn is     *)
(* SubstrateTurn's and opaque here; in flow mode it is FlowField's.        *)
(***************************************************************************)
EXTENDS FlowField

CONSTANTS Handlers, Watchers,
          Modes, Stages,   \* session modes; the pipeline's stages, in order
          Setups,          \* situations explored: the first session mode, may the chat process
                           \* run, who may watch and connect how often, how often the server may
                           \* be stopped, what may be said and answered, the field so far
          MaxTurns, MaxClears, MaxConnections

ASSUME DashboardAssumption ==
  /\ Modes \subseteq {"pipeline", "flow"} /\ Stages \in Seq(STRING)
  /\ \A s \in Setups : s.mode \in Modes /\ s.field.turns \in Int
  /\ MaxTurns \in Nat /\ MaxClears \in Nat /\ MaxConnections \in Nat

(* The field at the start is one that earlier sessions left.               *)
ASSUME EarlierFieldAssumption ==
  \A s \in Setups : AreMade(s.field.elements, 0) /\ Lean(s.field.elements)

VARIABLES setup,    \* the situation, chosen at the start
          server,   \* [up, mode, stops]
          store,    \* the turns each TurnStore lists, by mode
          lock,     \* _turn_lock
          subs,     \* _subscribers: connections
          watch,    \* per watcher: its latest connection
          proc,     \* per thread or process: the turn it is taking
          turns,    \* turns begun
          field,    \* state/flow_field.json
          traces,   \* trace files of both directories, in mtime order
          clears,   \* history: how often the field was cleared
          told      \* history: turns any watcher has read an event of
vars == <<setup, server, store, lock, subs, watch, proc, turns, field, traces, clears, told>>

Chat == "chat"
Procs == Handlers \cup {Chat}
Free == "free"
ASSUME ProcsAssumption == Chat \notin Handlers /\ Free \notin Handlers
NoFile == [elements |-> <<>>, recent |-> <<>>, turns |-> -1]
Idle == [pc |-> "idle", turn |-> 0, line |-> BlankText, live |-> <<>>, field |-> NoFile,
         mode |-> "flow", pos |-> 0, todo |-> <<>>]
Away == [no |-> 0, open |-> FALSE, queue |-> <<>>, seen |-> <<>>]

Events(mode) == IF mode = "flow" THEN <<"field_before", "traveled", "field_after", "turn_complete">>
                ELSE Append(Stages, "turn_complete")

Init ==
  /\ setup \in Setups /\ field = setup.field
  /\ server = [up |-> TRUE, mode |-> setup.mode, stops |-> 0]
  /\ store = [mode \in {"pipeline", "flow"} |-> {}]
  /\ lock = Free /\ subs = <<>> /\ watch = [w \in Watchers |-> Away]
  /\ proc = [p \in Procs |-> IF p = Chat THEN [Idle EXCEPT !.pc = "off"] ELSE Idle]
  /\ turns = 0 /\ traces = <<>> /\ clears = 0 /\ told = {}

(* --- taking a turn ----------------------------------------------------- *)

Goto(p, pc) == proc' = [proc EXCEPT ![p].pc = pc]
Rest(p) == proc' = [proc EXCEPT ![p] = IF p = Chat THEN [Idle EXCEPT !.pc = "off"] ELSE Idle]

Loaded == IF field = NoFile THEN FreshField ELSE field

(* run_flow_turn up to the inference, run_traced_turn up to its pipeline.  *)
Begin(p, mode, line) ==
  /\ turns < MaxTurns /\ turns' = turns + 1
  /\ proc' = [proc EXCEPT ![p] =
       [Idle EXCEPT !.pc = "infer", !.turn = turns + 1, !.line = line, !.mode = mode,
                    !.field = IF mode = "flow" THEN Loaded ELSE NoFile,
                    !.live = IF mode = "flow" THEN ComposeField(Loaded, line) ELSE <<>>]]

Post(h, line) ==
  /\ server.up /\ proc[h].pc = "idle" /\ turns < MaxTurns
  /\ proc' = [proc EXCEPT ![h] = [Idle EXCEPT !.pc = "posted", !.line = line]]
  /\ UNCHANGED <<setup, server, store, lock, subs, watch, turns, field, traces, clears, told>>

(* Mutant: the turn does not wait for the one in progress.                 *)
RunTurnUnlocked(h) ==
  /\ proc[h].pc = "posted" /\ lock' = h
  /\ Begin(h, server.mode, proc[h].line)
  /\ UNCHANGED <<setup, server, store, subs, watch, field, traces, clears, told>>

RunTurn(h) ==
  /\ proc[h].pc = "posted" /\ lock = Free /\ lock' = h
  /\ Begin(h, server.mode, proc[h].line)
  /\ UNCHANGED <<setup, server, store, subs, watch, field, traces, clears, told>>

ChatTurn(line) ==
  /\ proc[Chat].pc = "idle" /\ Begin(Chat, "flow", line)
  /\ UNCHANGED <<setup, server, store, lock, subs, watch, field, traces, clears, told>>

(* The exchange.  A raised observation ends a request with a 500 and the   *)
(* lock released, and ends the chat process.                               *)
Release(p) == lock' = IF lock = p THEN Free ELSE lock

Exchange(p, r) ==
  /\ proc[p].pc = "infer" /\ proc[p].mode = "flow"
  /\ IF ObservationsRaise(proc[p].field, r) THEN Rest(p) /\ Release(p)
     ELSE /\ proc' = [proc EXCEPT ![p].pc = "save",
                        ![p].field = IntegrateField(@, proc[p].live, proc[p].line, r, proc[p].turn)]
          /\ UNCHANGED lock
  /\ UNCHANGED <<setup, server, store, subs, watch, turns, field, traces, clears, told>>

RunPipeline(h) ==
  /\ proc[h].pc = "infer" /\ proc[h].mode = "pipeline" /\ Goto(h, "trace")
  /\ UNCHANGED <<setup, server, store, lock, subs, watch, turns, field, traces, clears, told>>

SaveField(p) ==
  /\ proc[p].pc = "save" /\ field' = proc[p].field /\ Goto(p, "trace")
  /\ UNCHANGED <<setup, server, store, lock, subs, watch, turns, traces, clears, told>>

Trace(p) == [turn |-> proc[p].turn, mode |-> proc[p].mode, life |-> clears, count |-> proc[p].field.turns]

(* The trace file, the store's list, and the end of the locked part; only  *)
(* the dashboard lists and broadcasts.                                     *)
StoreTurn(h) ==
  /\ proc[h].pc = "trace" /\ h # Chat
  /\ traces' = Append(traces, Trace(h))
  /\ store' = [store EXCEPT ![proc[h].mode] = @ \cup {proc[h].turn}]
  /\ proc' = [proc EXCEPT ![h] = [Idle EXCEPT !.pc = "publish", !.turn = proc[h].turn, !.mode = proc[h].mode,
                                              !.pos = 1]]
  /\ lock' = Free
  /\ UNCHANGED <<setup, server, subs, watch, turns, field, clears, told>>

ChatTrace ==
  /\ proc[Chat].pc = "trace"
  /\ traces' = Append(traces, Trace(Chat))
  /\ proc' = [proc EXCEPT ![Chat] = Idle]
  /\ UNCHANGED <<setup, server, store, lock, subs, watch, turns, field, clears, told>>

(* A write that fails raises out of the turn.  TurnStore has listed the    *)
(* turn by then; FlowTurnStore has not.                                    *)
WriteFails(p) ==
  /\ proc[p].pc \in {"save", "trace"}
  /\ store' = IF proc[p].mode = "pipeline" THEN [store EXCEPT !.pipeline = @ \cup {proc[p].turn}] ELSE store
  /\ Rest(p) /\ Release(p)
  /\ UNCHANGED <<setup, server, subs, watch, turns, field, traces, clears, told>>

(* --- the event stream -------------------------------------------------- *)

Done(o) == o.pos > Len(Events(o.mode))
Copied(o) ==
  IF Done(o) THEN Idle
  ELSE IF subs = <<>> THEN [o EXCEPT !.pos = o.pos + 1] ELSE [o EXCEPT !.pc = "put", !.todo = subs]
Sent(o) ==
  IF Len(o.todo) > 1 THEN [o EXCEPT !.todo = Tail(o.todo)]
  ELSE [o EXCEPT !.pc = "publish", !.pos = o.pos + 1, !.todo = <<>>]

(* _publish copies the subscribers under the lock, then puts outside it.   *)
Publish(h) ==
  /\ proc[h].pc = "publish"
  /\ proc' = [proc EXCEPT ![h] = Copied(@)]
  /\ UNCHANGED <<setup, server, store, lock, subs, watch, turns, field, traces, clears, told>>

(* Mutant: the first queue gets the message, the others do not.            *)
PutFirst(h) ==
  /\ proc[h].pc = "put"
  /\ LET to == Head(proc[h].todo)
     IN  watch' = IF watch[to[1]].no = to[2] /\ to \in ToSet(subs)
                  THEN [watch EXCEPT ![to[1]].queue =
                          Append(@, <<proc[h].turn, Events(proc[h].mode)[proc[h].pos]>>)]
                  ELSE watch
  /\ proc' = [proc EXCEPT ![h] = [@ EXCEPT !.pc = "publish", !.pos = @ + 1, !.todo = <<>>]]
  /\ UNCHANGED <<setup, server, store, lock, subs, turns, field, traces, clears, told>>

Put(h) ==
  /\ proc[h].pc = "put"
  /\ LET to == Head(proc[h].todo)
     IN  watch' = IF watch[to[1]].no = to[2] /\ to \in ToSet(subs)
                  THEN [watch EXCEPT ![to[1]].queue =
                          Append(@, <<proc[h].turn, Events(proc[h].mode)[proc[h].pos]>>)]
                  ELSE watch
  /\ proc' = [proc EXCEPT ![h] = Sent(@)]
  /\ UNCHANGED <<setup, server, store, lock, subs, turns, field, traces, clears, told>>

Connect(w) ==
  /\ server.up /\ w \in setup.watching /\ ~watch[w].open /\ watch[w].no < setup.connections
  /\ watch' = [watch EXCEPT ![w] = [Away EXCEPT !.no = watch[w].no + 1, !.open = TRUE]]
  /\ subs' = Append(subs, <<w, watch[w].no + 1>>)
  /\ UNCHANGED <<setup, server, store, lock, proc, turns, field, traces, clears, told>>

Deliver(w) ==
  /\ server.up /\ watch[w].open /\ watch[w].queue # <<>>
  /\ watch' = [watch EXCEPT ![w].queue = Tail(@), ![w].seen = Append(@, Head(watch[w].queue))]
  /\ told' = told \cup {Head(watch[w].queue)[1]}
  /\ UNCHANGED <<setup, server, store, lock, subs, proc, turns, field, traces, clears>>

Hangup(w) ==
  /\ watch[w].open
  /\ watch' = [watch EXCEPT ![w].open = FALSE]
  /\ UNCHANGED <<setup, server, store, lock, subs, proc, turns, field, traces, clears, told>>

(* The next write to a browser that left, of a message or a keep-alive,    *)
(* fails; the stream's thread unsubscribes its queue.                      *)
Unsubscribe(s) ==
  /\ s \in ToSet(subs) /\ (watch[s[1]].no # s[2] \/ ~watch[s[1]].open)
  /\ subs' = SelectSeq(subs, LAMBDA t : t # s)
  /\ watch' = IF watch[s[1]].no = s[2] THEN [watch EXCEPT ![s[1]].queue = <<>>] ELSE watch
  /\ UNCHANGED <<setup, server, store, lock, proc, turns, field, traces, clears, told>>

(* --- processes --------------------------------------------------------- *)

(* SIGTERM shuts the loop down and leaves; the daemon threads die where    *)
(* they are.  A kill does the same.                                        *)
Stop ==
  /\ server.up /\ server.stops < setup.stops
  /\ server' = [server EXCEPT !.up = FALSE, !.stops = @ + 1]
  /\ proc' = [p \in Procs |-> IF p = Chat THEN proc[p] ELSE Idle]
  /\ lock' = Free /\ subs' = <<>>
  /\ watch' = [w \in Watchers |-> [watch[w] EXCEPT !.open = FALSE, !.queue = <<>>]]
  /\ UNCHANGED <<setup, store, turns, field, traces, clears, told>>

Clear(new) ==
  /\ field' = IF new THEN NoFile ELSE field
  /\ clears' = IF new THEN clears + 1 ELSE clears

LoadExisting(mode) ==
  {traces[i].turn : i \in {j \in DOMAIN traces : traces[j].mode = mode}}

Start(mode, new) ==
  /\ ~server.up
  /\ server' = [server EXCEPT !.up = TRUE, !.mode = mode]
  /\ store' = [m \in DOMAIN store |-> LoadExisting(m)]
  /\ Clear(new /\ mode = "flow")
  /\ UNCHANGED <<setup, lock, subs, watch, proc, turns, traces, told>>

ChatStart(new) ==
  /\ setup.chatting /\ proc[Chat].pc = "off" /\ turns < MaxTurns /\ (new => clears < MaxClears)
  /\ proc' = [proc EXCEPT ![Chat].pc = "idle"] /\ Clear(new)
  /\ UNCHANGED <<setup, server, store, lock, subs, watch, turns, traces, told>>

(* quit, or an interrupt in the middle of a turn                           *)
ChatEnd ==
  /\ proc[Chat].pc # "off" /\ Rest(Chat)
  /\ UNCHANGED <<setup, server, store, lock, subs, watch, turns, field, traces, clears, told>>

(* --- reading a turn ---------------------------------------------------- *)

Other(mode) == IF mode = "flow" THEN "pipeline" ELSE "flow"
NotFound == 0
(* Mutant: only the store of the session's own mode is asked.              *)
GetSessionTrace(id) == IF id \in store[server.mode] THEN id ELSE NotFound

GetTrace(id) ==
  IF id \in store[server.mode] \cup store[Other(server.mode)] THEN id ELSE NotFound

Step(h) ==
  \/ RunTurn(h) \/ RunPipeline(h) \/ SaveField(h) \/ StoreTurn(h) \/ Publish(h) \/ Put(h)
  \/ \E r \in setup.replies : Exchange(h, r)

ChatStep ==
  \/ \E line \in setup.lines : ChatTurn(line)
  \/ \E r \in setup.replies : Exchange(Chat, r)
  \/ SaveField(Chat) \/ ChatTrace

Next ==
  \/ \E h \in Handlers : Step(h) \/ (\E line \in setup.lines : Post(h, line))
  \/ ChatStep \/ ChatEnd \/ (\E new \in BOOLEAN : ChatStart(new))
  \/ \E p \in Procs : WriteFails(p)
  \/ \E w \in Watchers : Connect(w) \/ Deliver(w) \/ Hangup(w)
  \/ \E s \in ToSet(subs) : Unsubscribe(s)
  \/ Stop \/ \E mode \in Modes, new \in BOOLEAN : Start(mode, new)

(* A request thread that is broadcasting and the stream's threads run on   *)
(* while the server does; nothing else is promised.                        *)
Spec == Init /\ [][Next]_vars
FairSpec == /\ Spec
            /\ \A h \in Handlers : WF_vars(Publish(h) \/ Put(h))
            /\ \A w \in Watchers : WF_vars(Deliver(w))

(* --- properties -------------------------------------------------------- *)

(* The field on disk is bounded, has no element twice and none below its   *)
(* floor, and never two topics on one subject, whatever the writers do:    *)
(* integrate_field keeps what it says of itself over any history.          *)
FieldIsLean == Lean(field.elements)

(* With no chat process beside it, the dashboard loses no integration:     *)
(* each traced flow turn counts one more than every earlier one of the     *)
(* same field, and the field on disk counts them all.                      *)
FieldKeepsTurns ==
  ~setup.chatting =>
    \A j \in DOMAIN traces : traces[j].mode = "flow" =>
      /\ traces[j].life = clears => field.turns >= traces[j].count
      /\ \A i \in 1..(j - 1) :
           traces[i].mode = "flow" /\ traces[i].life = traces[j].life => traces[i].count < traces[j].count

(* A turn some browser was told of is on disk, and GET finds it from then  *)
(* on, also in the process of a later start and in the other mode.         *)
ToldIsFound ==
  \A t \in told :
    /\ \E i \in DOMAIN traces : traces[i].turn = t
    /\ server.up => GetTrace(t) = t

(* A browser connected when a turn's first event is about to be published  *)
(* reads the turn's completion, unless it leaves or the server stops.      *)
Announced(w, c, t) ==
  /\ watch[w].open /\ watch[w].no = c
  /\ \E h \in Handlers : proc[h].pc = "publish" /\ proc[h].turn = t /\ proc[h].pos = 1
WatcherIsTold ==
  \A w \in Watchers, c \in 1..MaxConnections, t \in 1..MaxTurns :
    Announced(w, c, t) ~>
      (<<t, "turn_complete">> \in ToSet(watch[w].seen) \/ ~watch[w].open \/ watch[w].no # c)

(* flow.py says that every nonempty generation reaches the terminal: no    *)
(* turn awaits its reply with a field from which words would raise.        *)
SpokenIsShown ==
  \A p \in Procs : proc[p].pc = "infer" /\ proc[p].mode = "flow" =>
    \A r \in setup.replies : ~ObservationsRaise(proc[p].field, r)
=============================================================================
