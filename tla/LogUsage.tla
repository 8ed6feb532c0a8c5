------------------------------- MODULE LogUsage -------------------------------
(***************************************************************************)
(* probes/log_usage.rs: calls of console, pino and winston loggers.  The   *)
(* probe learns the loggers of a program from the tracer's ReturnValue     *)
(* events and traces the methods of each one it learns.                    *)
(*                                                                         *)
(* s.tracer is the tracer and s.log the probe.  winston, winstonChild and  *)
(* pino map the paths of logger factories to the methods of what they      *)
(* return; winstonChild's are always all of them.                          *)
(***************************************************************************)
EXTENDS VariableTracer

CONSTANTS
    ConsoleMethods, PinoMethods, WinstonMethods     \* sequences of names

Missing == [type |-> "Null"]
Returning(module) == [Follow EXCEPT !.followReturn = TRUE, !.module = module]
ReturningOnly(module) == [Returning(module) EXCEPT !.follow = FALSE]
Following(module) == [Follow EXCEPT !.module = module]
Named(object, names) == [i \in DOMAIN names |-> <<object, names[i]>>]

NewLogUsage ==
    [names |-> {}, winstonChild |-> {}, winston |-> << >>, pino |-> << >>,
     context |-> << >>]

(* The methods of a logger are log calls and are traced. *)
AddMethods(s, id, methods, module) ==
    [s EXCEPT !.log.names = @ \cup Range(Named(id, methods)),
              !.tracer = TraceAll(@, Named(id, methods), Following(module))]

(* initialize *)
InitializeLogUsage(s) ==
    LET console == AddMethods(s, "console", ConsoleMethods, NoModule)
        created == TraceAll(console.tracer, << <<"winston", "createLogger">>, <<"winston">> >>,
                            Returning("winston"))
        called == Trace(created, <<"pino">>, Returning("pino"))
        child == Trace(called, <<"winston", "child">>, ReturningOnly("winston"))
        winston == AddMethods([console EXCEPT !.tracer = child],
                              "winston", WinstonMethods, "winston")
    IN  [winston EXCEPT
            !.log.winstonChild = {<<"winston", "child">>},
            !.log.winston = With(@, <<"winston", "createLogger">>, WinstonMethods),
            !.log.pino = With(@, <<"pino">>, PinoMethods)]

(***************************************************************************)
(* resolve_call_context: the object a factory is called with, written at   *)
(* the call or under the name of a variable.                               *)
(***************************************************************************)
CallContext(t, arguments) ==
    LET first == IF arguments = << >> THEN Missing ELSE arguments[1]
        object == IF ~IsIdentifier(first) THEN first
                  ELSE IF first.name \in DOMAIN t.objects THEN t.objects[first.name]
                  ELSE Missing
    IN  IF object.type = "ObjectExpression" THEN object ELSE Missing

(* find_property_match for an object *)
ObjectAt(properties, key) ==
    LET i == SelectInSeq(properties, LAMBDA p :
                p.type = "Property" /\ p.key.name = key /\ p.value.type = "ObjectExpression")
    IN  IF i = 0 THEN Missing ELSE properties[i].value

(* find_pino_options: nothing is read after both were found *)
PinoOptions(context) ==
    LET read(found, p) ==
            IF p.type # "Property" \/ (found.levels # Missing /\ found.only # Missing)
            THEN found
            ELSE IF p.key.name = "customLevels" /\ p.value.type = "ObjectExpression"
            THEN [found EXCEPT !.levels = p.value]
            ELSE IF p.key.name = "useOnlyCustomLevels" THEN [found EXCEPT !.only = p.value]
            ELSE found
    IN  FoldLeft(read, [levels |-> Missing, only |-> Missing], context.properties)

(* resolve_property_text *)
IsTrue(t, value) ==
    \/ value.type = "Literal" /\ value.value = "true"
    \/ /\ IsIdentifier(value) /\ value.name \in DOMAIN t.literals
       /\ t.literals[value.name].value = "true"

(* add_log_methods *)
LevelNames(levels) ==
    IF levels = Missing THEN << >>
    ELSE LET named == SelectSeq(levels.properties,
                             LAMBDA p : p.type = "Property" /\ IsIdentifier(p.key))
         IN  [i \in DOMAIN named |-> named[i].key.name]

(* handle_winston_child *)
HandleWinstonChild(s, id) ==
    LET told == AddMethods(s, id, WinstonMethods, "winston")
    IN  [told EXCEPT !.tracer = Trace(@, <<id, "child">>, ReturningOnly("winston")),
                     !.log.winstonChild = @ \cup {<<id, "child">>}]

(* handle_winston_create_logger *)
HandleWinstonCreateLogger(s, name, id, arguments) ==
    LET context == CallContext(s.tracer, arguments)
        levels == IF name = <<"winston", "createLogger">> /\ context # Missing
                  THEN ObjectAt(context.properties, "levels") ELSE Missing
        methods == IF levels # Missing THEN LevelNames(levels) ELSE s.log.winston[name]
        told == AddMethods(s, id, methods, "winston")
    IN  [told EXCEPT !.tracer = Trace(@, <<id, "child">>, ReturningOnly("winston")),
                     !.log.winston = With(@, <<id, "child">>, methods)]

(* handle_pino *)
HandlePino(s, name, id, arguments) ==
    LET context == CallContext(s.tracer, arguments)
        options == PinoOptions(context)
        own == IF name # <<"pino">> \/ context = Missing THEN s.log.pino[name]
               ELSE (IF IsTrue(s.tracer, options.only) THEN << >> ELSE s.log.pino[name])
                    \o LevelNames(options.levels)
        told == AddMethods(s, id, own, "pino")
    IN  [told EXCEPT !.tracer = Trace(@, <<id, "child">>, ReturningOnly("pino")),
                     !.log.pino = With(@, <<id, "child">>, own)]

(***************************************************************************)
(* on_tracer_event: the three listeners, each on what the one before left. *)
(***************************************************************************)
LogUsageHears(s, event) ==
    LET name == event.name
        child == IF name \in s.log.winstonChild
                 THEN HandleWinstonChild(s, event.id) ELSE s
        created == IF name \in DOMAIN child.log.winston
                   THEN HandleWinstonCreateLogger(child, name, event.id, event.node.arguments)
                   ELSE child
    IN  IF event.type # "ReturnValue" THEN s
        ELSE IF name \in DOMAIN created.log.pino
        THEN HandlePino(created, name, event.id, event.node.arguments)
        ELSE created

(* validate_node and main *)
LogUsageProbes(s, node, data) ==
    IF IsCall(node) /\ data # NoReport /\ data.expr \in s.log.names
    THEN [s EXCEPT !.log.context = Append(@, [method |-> data.expr, line |-> s.line])]
    ELSE s
===============================================================================
