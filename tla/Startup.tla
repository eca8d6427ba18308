------------------------------ MODULE Startup -------------------------------
(***************************************************************************)
(* The life of the program without a subcommand: ciel/src/main.rs, with    *)
(* providers.rs and gateway.rs.  The configuration is read; a provider and *)
(* a gateway is built for each entry of their sections; all gateways start *)
(* at once, and the program serves if any of them does; a signal stops     *)
(* them all, and the program ends when all have stopped.  A program that   *)
(* cannot listen for signals ends at once, under the gateways that run.    *)
(*                                                                         *)
(* The settings of a gateway are those Discord::factory reads, the ones of *)
(* a provider those OpenAI::factory reads.  A gateway that has started     *)
(* runs, and may end by itself; its inside is DiscordGateway.              *)
(***************************************************************************)
EXTENDS Configuration

CONSTANTS
    Files,     \* the configurations to start with
    Numerals   \* the texts that are the numbers of channels

ASSUME FilesAssumption == Files \subseteq Values

VARIABLES
    file, external,  \* the configuration file, and what it refers to
    values,          \* the configuration once it is resolved
    main,            \* where do_main is
    providers,       \* the settings of the providers, by their names
    gateways,        \* the settings of the gateways loaded, by their names
    state            \* what each of these gateways does

inputs == <<file, external>>
vars == <<inputs, values, main, providers, gateways, state>>

Empty == [k \in {} |-> {}]
Insert(map, k, v) == [l \in DOMAIN map \cup {k} |-> IF l = k THEN v ELSE map[l]]
Names(section) == DOMAIN LookUp(values, section, <<"">>).fields

Init ==
    /\ file \in Files
    /\ external \in Externals
    /\ values = Error
    /\ main = "boot"
    /\ providers = Empty
    /\ gateways = Empty
    /\ state = Empty

-----------------------------------------------------------------------------
(* Building things from the configuration.                                 *)

Read(all, scope, key) == LookUp(all, scope, key).kind
Optional(kind) == {kind, "error"}

(* Discord::factory: a token, and channels if there are any; an id is a    *)
(* number or a numeral.                                                    *)
IsId(item) == item.kind = "number" \/ (item.kind = "text" /\ item.text \in Numerals)

DiscordSettings(all, scope) ==
    LET listed == LookUp(all, scope, <<"allowed-channels">>)
        channels == IF listed = Error THEN Array(<<>>) ELSE listed
    IN IF /\ Read(all, scope, <<"token">>) = "text"
          /\ channels.kind = "array"
          /\ \A i \in DOMAIN channels.items : IsId(channels.items[i])
       THEN [token |-> LookUp(all, scope, <<"token">>),
             channels |-> {channels.items[i] : i \in DOMAIN channels.items}]
       ELSE Error

(* OpenAI::factory.                                                        *)
OpenAISettings(all, scope) ==
    IF /\ Read(all, scope, <<"base-url">>) = "text"
       /\ Read(all, scope, <<"api-key">>) \in Optional("text")
    THEN [url |-> LookUp(all, scope, <<"base-url">>),
          key |-> LookUp(all, scope, <<"api-key">>)]
    ELSE Error

(* What do_main reads besides: where the database is, before the           *)
(* providers, and the model, its prompt and the terminal tool, after them. *)
HasDatabase(all) ==
    /\ Read(all, <<>>, <<"database", "path">>) = "text"
    /\ Read(all, <<>>, <<"database", "temporary">>) \in Optional("flag")

HasModel(all) ==
    /\ \A key \in {"provider", "name", "soul"} :
        Read(all, <<>>, <<"model", "default", key>>) = "text"
    /\ \/ Read(all, <<>>, <<"tool", "terminal">>) = "error"
       \/ Read(all, <<"tool", "terminal">>, <<"ssh-host">>) = "text"

(* A section is read as a table of tables with a type before anything is   *)
(* built from it.                                                          *)
IsSection(section) ==
    /\ section.kind = "table"
    /\ \A name \in DOMAIN section.fields :
        /\ section.fields[name].kind = "table"
        /\ <<"type">> \in DOMAIN section.fields[name].fields
        /\ section.fields[name].fields[<<"type">>].kind = "text"

Type(section, name) ==
    LookUp(values, section, <<"">>).fields[name].fields[<<"type">>].text

(* The database may also fail to open.                                     *)
Boot ==
    /\ main = "boot"
    /\ values' = Resolve(external, file)
    /\ \/ values' # Error /\ HasDatabase(values') /\ main' = "providers"
       \/ main' = "failed"
    /\ UNCHANGED <<inputs, providers, gateways, state>>

(* apply_config: one bad entry, and nothing is changed.                    *)
ApplyProviders ==
    LET section == LookUp(values, <<"provider">>, <<"">>)
        built == [name \in DOMAIN section.fields |->
                    OpenAISettings(values, Scoped(<<"provider">>, name))]
    IN
    /\ main = "providers"
    /\ IF IsSection(section)
            /\ \A name \in DOMAIN section.fields :
                Type(<<"provider">>, name) = "openai" /\ built[name] # Error
       THEN main' = "model" /\ providers' = built
       ELSE main' = "failed" /\ UNCHANGED providers
    /\ UNCHANGED <<inputs, values, gateways, state>>

ReadModel ==
    /\ main = "model"
    /\ main' = IF HasModel(values) THEN "loading" ELSE "failed"
    /\ UNCHANGED <<inputs, values, providers, gateways, state>>

(* load: the next entry, in any order; one bad entry ends the program.     *)
LoadGateway ==
    /\ main = "loading"
    /\ IF IsSection(LookUp(values, <<"gateway">>, <<"">>))
       THEN \E name \in Names(<<"gateway">>) \ DOMAIN gateways :
            LET settings == DiscordSettings(values, Scoped(<<"gateway">>, name)) IN
            IF Type(<<"gateway">>, name) = "discord" /\ settings # Error
            THEN gateways' = Insert(gateways, name, settings) /\ UNCHANGED main
            ELSE main' = "failed" /\ UNCHANGED gateways
       ELSE main' = "failed" /\ UNCHANGED gateways
    /\ UNCHANGED <<inputs, values, providers, state>>

-----------------------------------------------------------------------------
(* Running.                                                                *)

RunAll ==
    /\ main = "loading"
    /\ IsSection(LookUp(values, <<"gateway">>, <<"">>))
    /\ Names(<<"gateway">>) = DOMAIN gateways
    /\ state' = [name \in DOMAIN gateways |-> "starting"]
    /\ main' = "starting"
    /\ UNCHANGED <<inputs, values, providers, gateways>>

Move(name, from, to) ==
    /\ state[name] = from
    /\ state' = [state EXCEPT ![name] = to]
    /\ UNCHANGED <<inputs, values, main, providers, gateways>>

Started(name) == Move(name, "starting", "running")
StartFails(name) == Move(name, "starting", "failed")
ShardEnds(name) == Move(name, "running", "ended")

(* Mutant of RunReturns: the first failure is that of all.                 *)
RunReturnsEarly ==
    /\ main = "starting"
    /\ \/ \E name \in DOMAIN state : state[name] = "failed"
       \/ \A name \in DOMAIN state : state[name] # "starting"
    /\ main' = IF \E name \in DOMAIN state : state[name] = "failed"
               THEN "failed" ELSE "started"
    /\ UNCHANGED <<inputs, values, providers, gateways, state>>

(* All starts are settled: it is enough that one succeeded.                *)
RunReturns ==
    /\ main = "starting"
    /\ \A name \in DOMAIN state : state[name] # "starting"
    /\ main' = IF \E name \in DOMAIN state : state[name] # "failed"
               THEN "started" ELSE "failed"
    /\ UNCHANGED <<inputs, values, providers, gateways, state>>

(* The signals are listened for.  If that fails, main returns the error    *)
(* and stops no gateway.                                                   *)
Listen ==
    /\ main = "started"
    /\ main' \in {"serving", "deaf"}
    /\ UNCHANGED <<inputs, values, providers, gateways, state>>

(* stop_all: stop is called on every gateway.  One that did not start or   *)
(* has ended has nothing to stop; the others send a close frame.           *)
Signal ==
    /\ main = "serving"
    /\ main' = "stopping"
    /\ state' = [name \in DOMAIN state |->
                    IF state[name] = "running" THEN "closing" ELSE state[name]]
    /\ UNCHANGED <<inputs, values, providers, gateways>>

(* Before, nobody listens for signals, and they end the process; so does   *)
(* the return of a main that cannot listen.  Another signal while the      *)
(* gateways stop is taken and changes nothing.                             *)
Killed ==
    /\ main \in {"boot", "providers", "model", "loading", "starting", "started",
                 "deaf"}
    /\ main' = "killed"
    /\ state' = [name \in DOMAIN state |-> "gone"]
    /\ UNCHANGED <<inputs, values, providers, gateways>>

Closed(name) == Move(name, "closing", "ended")

(* Mutant of Exit: gateways that did not start are waited for.             *)
ExitWhenEnded ==
    /\ main = "stopping"
    /\ \A name \in DOMAIN state : state[name] = "ended"
    /\ main' = "exited"
    /\ UNCHANGED <<inputs, values, providers, gateways, state>>

Exit ==
    /\ main = "stopping"
    /\ \A name \in DOMAIN state : state[name] # "closing"
    /\ main' = "exited"
    /\ UNCHANGED <<inputs, values, providers, gateways, state>>

Main ==
    \/ Boot \/ ApplyProviders \/ ReadModel
    \/ LoadGateway \/ RunAll \/ RunReturns \/ Listen \/ Exit

Next ==
    \/ Main \/ Signal \/ Killed
    \/ \E name \in DOMAIN state :
        Started(name) \/ StartFails(name) \/ ShardEnds(name) \/ Closed(name)

Spec == Init /\ [][Next]_vars

(* main goes on when it can, a start succeeds or fails, and Discord        *)
(* answers a close frame or the connection ends.                           *)
FairSpec ==
    /\ Spec
    /\ WF_vars(Main)
    /\ WF_vars(\E name \in DOMAIN state :
                    Started(name) \/ StartFails(name) \/ Closed(name))

-----------------------------------------------------------------------------
(* Properties.                                                             *)

(* A name that is one part, as names are if nobody quotes them.            *)
IsPlain(name) == Len(name) = 1 /\ name[1] # ""

(* config.rs:53-68, gateway.rs:44-63, providers.rs:31-58: a gateway or a   *)
(* provider with a plain name is built from its own entry, directives      *)
(* replaced, whatever the other entries are called.                        *)
OwnSection ==
    LET Own(section, name) == Resolve(external, file.fields[section].fields[name]) IN
    /\ \A name \in DOMAIN gateways : IsPlain(name) =>
        gateways[name] = DiscordSettings(Own(<<"gateway">>, name), <<>>)
    /\ \A name \in DOMAIN providers : IsPlain(name) =>
        providers[name] = OpenAISettings(Own(<<"provider">>, name), <<>>)

(* gateway.rs:65-101, main.rs:151-164: once gateways were started, main    *)
(* returns only when each has failed or ended, in all ways but one: when   *)
(* it cannot listen for signals (main.rs:155) they may run, and none of    *)
(* them is starting.  It serves, or tries to, only if one has started.     *)
NoOrphan ==
    /\ main \in {"failed", "exited"} =>
        \A name \in DOMAIN state : state[name] \in {"failed", "ended"}
    /\ main = "deaf" =>
        \A name \in DOMAIN state : state[name] \in {"running", "failed", "ended"}
    /\ main \in {"started", "serving", "deaf"} =>
        /\ \E name \in DOMAIN state : state[name] \in {"running", "ended"}
        /\ DOMAIN state = DOMAIN file.fields[<<"gateway">>].fields

(* main.rs:158-163: the program ends after a signal, although some of its  *)
(* gateways may not have started, and others have ended by themselves.     *)
SignalEnds == main = "stopping" ~> main = "exited"
=============================================================================
