-------------------------------- MODULE Walker --------------------------------
(***************************************************************************)
(* walker/mod.rs: the walk over a syntax tree, whose handlers may skip,    *)
(* remove or replace the node they are called on and may start a walk of   *)
(* their own meanwhile.  The recursion of visit is a stack of frames here, *)
(* and a frame owns the node it visits until the node is put back.         *)
(***************************************************************************)
EXTENDS Nodes, History, Integers, SequencesExt

Missing == [type |-> "Null"]

(* WalkerContext *)
Nothing == [skip |-> FALSE, remove |-> FALSE, replacement |-> Missing]
Skip == [Nothing EXCEPT !.skip = TRUE]
Removal == [Nothing EXCEPT !.remove = TRUE]
Replace(node) == [Nothing EXCEPT !.replacement = node]
ReplaceAndSkip(node) == [Skip EXCEPT !.replacement = node]

CONSTANTS
    Handler,         \* handlers without a state of their own
    Asks(_, _),      \* handler and node -> [enter, nested, leave], what it does there
    NodesFor(_)      \* handler -> the nodes it may be called on

VARIABLES
    body,        \* the program's statements when the pass at work began
    handler,     \* the handler of that pass
    walkers      \* the running walks, the innermost last

walkerVars == <<body, handler, walkers, seen>>

(***************************************************************************)
(* key is the field the walker is at, and item the place in it.  The root  *)
(* of a walk is an array of statements, which no handler reacts to.        *)
(***************************************************************************)
Frame(node) == [node |-> node, key |-> 1, item |-> 1]
Array(nodes) == [type |-> "Array", body |-> nodes]
WalkOf(nodes) == [frames |-> <<Frame(Array(nodes))>>, context |-> Nothing, handling |-> FALSE]

Walking == Last(walkers)
Current == Last(Walking.frames)
KeyOf(frame) == FieldsOf(frame.node)[frame.key]
Listed(frame) == IsList(frame.node, KeyOf(frame))
Held(frame) == HeldAt(frame.node, KeyOf(frame))

Exhausted(frame) == frame.key > Len(FieldsOf(frame.node))
Reached(frame) == ~Exhausted(frame) /\ frame.item <= Len(Held(frame))
AtChild(frame) == Reached(frame) /\ Held(frame)[frame.item] # Missing
Child(frame) == Held(frame)[frame.item]

(***************************************************************************)
(* What the loops of visit_children and visit_array make of an outcome:    *)
(* the node is put back, or it is removed.  A removed element leaves its   *)
(* place to the next one, a removed field becomes null.                    *)
(***************************************************************************)
AdvanceAlways(frame, kept) ==    \* (faulty) the index moves on after a removal too
    LET list == SubSeq(Held(frame), 1, frame.item - 1) \o kept
                \o SubSeq(Held(frame), frame.item + 1, Len(Held(frame)))
        field == IF kept = << >> THEN Missing ELSE kept[1]
    IN  [frame EXCEPT !.node[KeyOf(frame)] = IF Listed(frame) THEN list ELSE field,
                      !.item = @ + 1]

PutBack(frame, kept) ==
    LET list == SubSeq(Held(frame), 1, frame.item - 1) \o kept
                \o SubSeq(Held(frame), frame.item + 1, Len(Held(frame)))
        field == IF kept = << >> THEN Missing ELSE kept[1]
    IN  [frame EXCEPT !.node[KeyOf(frame)] = IF Listed(frame) THEN list ELSE field,
                      !.item = IF Listed(frame) THEN @ + Len(kept) ELSE @ + 1]

(* The walk at work goes on with these frames. *)
Continue(frames) ==
    walkers' = [walkers EXCEPT ![Len(walkers)] =
                   [frames |-> frames, context |-> Nothing, handling |-> FALSE]]

Free == walkers # << >> /\ ~Walking.handling

(* walk: a pass over the whole program begins.                             *)
Begin(h) ==
    /\ walkers = << >>
    /\ handler' = h /\ walkers' = <<WalkOf(body)>> /\ seen' = << >>
    /\ UNCHANGED body

StayAtHoles ==    \* (faulty) the index only moves on behind a node
    /\ Free /\ ~Exhausted(Current) /\ ~AtChild(Current)
    /\ Continue(Append(Front(Walking.frames),
          IF Reached(Current) THEN Current ELSE [Current EXCEPT !.key = @ + 1, !.item = 1]))
    /\ UNCHANGED <<body, handler, seen>>

(* The next element that is no node, or the next field. *)
Move ==
    /\ Free /\ ~Exhausted(Current) /\ ~AtChild(Current)
    /\ Continue(Append(Front(Walking.frames),
          IF Reached(Current) THEN [Current EXCEPT !.item = @ + 1]
          ELSE [Current EXCEPT !.key = @ + 1, !.item = 1]))
    /\ UNCHANGED <<body, handler, seen>>

(***************************************************************************)
(* run_handler(enter): the handler is called on the child and leaves its   *)
(* request in a context of its own; nested are the statements it walks     *)
(* before it returns, with that context still set.                         *)
(***************************************************************************)
ForgetRequest(request, nested) ==    \* (faulty) a nested walk starts in the same context
    IF nested = << >> THEN request ELSE Nothing
Requested(request, nested) == request

Enter(request, nested) ==
    /\ Free /\ AtChild(Current)
    /\ walkers' = [walkers EXCEPT ![Len(walkers)] =
                      [@ EXCEPT !.handling = TRUE, !.context = Requested(request, nested)]]
                  \o (IF nested = << >> THEN << >> ELSE <<WalkOf(nested)>>)
    /\ seen' = Append(seen, Child(Current))
    /\ UNCHANGED <<body, handler>>

EnterAsked ==
    /\ Free /\ AtChild(Current)
    /\ LET asked == Asks(handler, Child(Current)) IN Enter(asked.enter, asked.nested)

(* visit_inner, after the handler: remove, keep as it is, or go inside *)
Return ==
    /\ walkers # << >> /\ Walking.handling
    /\ LET asked == Walking.context
           node == IF asked.replacement = Missing THEN Child(Current) ELSE asked.replacement
           above == Front(Walking.frames)
       IN  IF asked.remove THEN Continue(Append(above, PutBack(Current, << >>)))
           ELSE IF asked.skip THEN Continue(Append(above, PutBack(Current, <<node>>)))
           ELSE Continue(Append(Walking.frames, Frame(node)))
    /\ UNCHANGED <<body, handler, seen>>

(* run_handler(leave), and the way back to the node above *)
Leave(request) ==
    /\ Free /\ Exhausted(Current) /\ Len(Walking.frames) > 1
    /\ LET above == Front(Walking.frames)
           node == IF request.replacement = Missing THEN Current.node ELSE request.replacement
           kept == IF request.remove THEN << >> ELSE <<node>>
       IN  Continue(Append(Front(above), PutBack(Last(above), kept)))
    /\ UNCHANGED <<body, handler, seen>>

LeaveAsked == Free /\ Exhausted(Current) /\ Leave(Asks(handler, Current.node).leave)

WalkOver == Free /\ Exhausted(Current) /\ Len(Walking.frames) = 1

(* A nested walk is over, and the handler that started it goes on. *)
EndNested ==
    /\ WalkOver /\ Len(walkers) > 1
    /\ walkers' = Front(walkers)
    /\ UNCHANGED <<body, handler, seen>>

(* The pass is over, and the program goes on as these statements.          *)
PassOver == WalkOver /\ Len(walkers) = 1
End(nodes) ==
    /\ PassOver
    /\ body' = nodes /\ walkers' = << >>
    /\ UNCHANGED <<handler, seen>>

-----------------------------------------------------------------------------
(* Passes of any of the handlers, one after another. *)
WalkerInit ==
    /\ handler \in Handler /\ body \in Seq(NodesFor(handler))
    /\ walkers = << >> /\ seen = << >>

WalkerNext ==
    \/ \E h \in Handler : body \in Seq(NodesFor(h)) /\ Begin(h)
    \/ Move \/ EnterAsked \/ Return \/ LeaveAsked \/ EndNested
    \/ End(Current.node.body)

WalkerSpec == WalkerInit /\ [][WalkerNext]_walkerVars
===============================================================================
