------------------------------- MODULE Settings -------------------------------
(***************************************************************************)
(* The relay's settings: read from the environment (internal/config), made *)
(* the limits of the router and of the room store (NewRouter), announced   *)
(* by GET /api/v1/config and in session.created; and the process around    *)
(* them, from its start to its end (cmd/relay).                            *)
(*                                                                         *)
(* A duration is a number of ticks in a word of the machine: a product     *)
(* wraps.  A path is "root", one of the API or "elsewhere".                *)
(* NewStoreWithDefaultTTL is a faulty variant.                             *)
(***************************************************************************)
EXTENDS Integers

CONSTANTS
  EnvNumbers,  \* integers a variable of the environment may hold
  Word,        \* a signed word holds -Word \div 2 .. Word \div 2 - 1
  Second,      \* ticks of a second
  Defaults,    \* setting -> default, as both config and httpapi have it
  Unset,       \* a variable that is not set, or blank
  Garbage      \* one that holds no integer

Names == {"participants", "length", "ttl", "heartbeat"}
Timed == {"ttl", "heartbeat"}

ASSUME SettingsAssumption ==
  /\ EnvNumbers \subseteq Int /\ Unset \notin Int /\ Garbage \notin Int \cup {Unset}
  /\ Second \in Nat \ {0}
  /\ Word \in Nat \ {0} /\ Word % 2 = 0
  /\ Defaults \in [Names -> 1 .. Word \div 2 - 1]
  /\ \A name \in Timed : Defaults[name] * Second < Word \div 2

VARIABLES
  process,  \* how far it is
  environ,  \* setting -> number, Unset or Garbage
  cfg,      \* setting -> number or ticks
  limits,   \* of the room store
  answer    \* to the last request: its status and what it announces

settingsVars == <<process, environ, cfg, limits, answer>>

Paths == {"root", "healthz", "config", "ws", "api", "elsewhere"}
NoAnswer == [status |-> 0]

InWord(number) == ((number + Word \div 2) % Word) - Word \div 2

SettingsInit ==
  /\ process = "starting"
  /\ environ \in [Names -> EnvNumbers \cup {Unset, Garbage}]
  /\ cfg = Defaults /\ limits = Defaults /\ answer = NoAnswer

(***************************************************************************)
(* config.Load                                                             *)
(***************************************************************************)

\* getIntEnv, where it has no error
IntEnv(name) == IF environ[name] = Unset THEN Defaults[name] ELSE environ[name]

AllIntegers == \A name \in Names : environ[name] # Garbage

Loaded ==
  [name \in Names |-> IF name \in Timed THEN InWord(IntEnv(name) * Second) ELSE IntEnv(name)]

\* Validate
Valid(settings) == \A name \in Names : settings[name] > 0

Load ==
  /\ process = "starting"
  /\ AllIntegers /\ Valid(Loaded)
  /\ cfg' = Loaded
  /\ process' = "loaded"
  /\ UNCHANGED <<environ, limits, answer>>

\* main exits.
LoadFails ==
  /\ process = "starting"
  /\ ~(AllIntegers /\ Valid(Loaded))
  /\ process' = "failed"
  /\ UNCHANGED <<environ, cfg, limits, answer>>

(***************************************************************************)
(* NewRouter                                                               *)
(***************************************************************************)
InTicks(name) == IF name \in Timed THEN Defaults[name] * Second ELSE Defaults[name]

\* normalizeRuntimeConfig
Normalized(settings) ==
  [name \in Names |-> IF settings[name] > 0 THEN settings[name] ELSE InTicks(name)]

NewStoreWithDefaultTTL(settings) == [settings EXCEPT !["ttl"] = InTicks("ttl")]
\* roomstore.New with WithJoinCodeLength and WithCodeTTL, which refuse what is
\* not positive; the store without them.
NewStore(settings) ==
  IF \A name \in {"participants", "length", "ttl"} : settings[name] > 0 THEN settings
  ELSE [name \in Names |-> InTicks(name)]

NewRouter ==
  /\ process = "loaded"
  /\ cfg' = Normalized(cfg)
  /\ limits' = NewStore(Normalized(cfg))
  /\ process' = "serving"
  /\ UNCHANGED <<environ, answer>>

(***************************************************************************)
(* ServeHTTP                                                               *)
(***************************************************************************)

\* CodeTTLSeconds, HeartbeatIntervalSeconds
InSeconds(ticks) == ticks \div Second
Announced ==
  [name \in Names |-> IF name \in Timed THEN InSeconds(cfg[name]) ELSE cfg[name]]

\* The upgrade answers a request that asks for one, and refuses any other.
Answers(method, path) ==
  IF method = "GET" THEN
    CASE path \in {"root", "healthz"} -> {[status |-> 200]}
      [] path = "config" -> {[status |-> 200, announces |-> Announced]}
      [] path = "ws" -> {[status |-> 101], [status |-> 400]}
      [] path \in {"api", "elsewhere"} -> {[status |-> 404]}
  ELSE IF path \in {"root", "elsewhere"} THEN {[status |-> 404]}
  ELSE {[status |-> 405]}

Serve(method, path) ==
  /\ process = "serving"
  /\ answer' \in Answers(method, path)
  /\ UNCHANGED <<process, environ, cfg, limits>>

\* createOwnerSession and session.created
CreateSession ==
  /\ process = "serving"
  /\ answer' = [status |-> 101,
                creates |-> [participants |-> limits["participants"],
                             length |-> limits["length"],
                             ttl |-> InSeconds(cfg["ttl"])]]
  /\ UNCHANGED <<process, environ, cfg, limits>>

(***************************************************************************)
(* main                                                                    *)
(***************************************************************************)

\* ListenAndServe fails.
ListenFails ==
  /\ process = "serving"
  /\ process' = "failed"
  /\ UNCHANGED <<environ, cfg, limits, answer>>

\* SIGINT or SIGTERM; a Shutdown that takes too long fails.  It does not wait
\* for the WebSockets, which end with the process.
Signal ==
  /\ process = "serving"
  /\ process' \in {"stopped", "failed"}
  /\ UNCHANGED <<environ, cfg, limits, answer>>

SettingsNext ==
  \/ Load \/ LoadFails \/ NewRouter \/ ListenFails \/ Signal \/ CreateSession
  \/ \E method \in {"GET", "POST"}, path \in Paths : Serve(method, path)

(***************************************************************************)
(* Properties.                                                             *)
(***************************************************************************)

\* The number an operator has asked for, if it fits.
Fits(name) ==
  environ[name] \in Int /\ name \in Timed =>
    environ[name] * Second \in (0 - Word \div 2) .. (Word \div 2 - 1)

(* A relay that serves enforces what it announces, to its operator
   (GET /api/v1/config) and to an owner (session.created), and both are what its
   environment says, but for a duration in seconds that overflows when it is
   made one in nanoseconds: such a one may be refused, or be another one. *)
LimitsInForce ==
  process = "serving" =>
    /\ \A name \in Names \ {"heartbeat"} : limits[name] = cfg[name]
    /\ \A name \in Names :
         /\ environ[name] # Garbage
         /\ Fits(name) => IntEnv(name) > 0 /\ Announced[name] = IntEnv(name)
    /\ "creates" \in DOMAIN answer =>
         \A name \in DOMAIN answer.creates : answer.creates[name] = Announced[name]
    /\ "announces" \in DOMAIN answer => answer.announces = Announced
=============================================================================
