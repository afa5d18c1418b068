---------------------------- MODULE ProcessLife ----------------------------
(***************************************************************************)
(* The start and the end of one process: the wait for the port (main.ts),  *)
(* the pings that keep the host awake (keep-alive.service.ts) and the bot's *)
(* connection, by a webhook or by polling under a supervisor               *)
(* (telegram.service.ts).  A signal may come at any moment; app.close calls *)
(* the hooks of both services.  What is left after them ends with           *)
(* process.exit, which is not modelled.                                     *)
(***************************************************************************)
EXTENDS Naturals

CONSTANTS MaxRetries,  \* MAX_RETRIES of waitForPortAvailability
          Production,  \* NODE_ENV: no wait for the port
          Webhook      \* the mode asked for is "webhook"

ASSUME LifeAssumption ==
  MaxRetries \in Nat /\ Production \in BOOLEAN /\ Webhook \in BOOLEAN

VARIABLES phase,    \* of the start; "failed" when the port stayed busy
          attempt,  \* attempts to find the port free
          leaving,  \* the signal has come
          timers,   \* of the keep-alive service: "initial", "interval"
          requests, \* keep-alive requests without an answer
          inProgress, isDestroyed, \* of the keep-alive service
          bot,      \* the connection of the bot, and where its supervisor is
          isStopping,
          cut       \* history: the bot was stopped while it was being launched

lifeVars == <<phase, attempt, leaving, timers, requests, inProgress, isDestroyed,
              bot, isStopping, cut>>
aliveVars == <<timers, requests, inProgress, isDestroyed>>
botVars == <<bot, isStopping, cut>>

LifeInit ==
  /\ phase = IF Production THEN "init" ELSE "port"
  /\ attempt = 0 /\ leaving = FALSE
  /\ timers = {} /\ requests = 0 /\ inProgress = FALSE /\ isDestroyed = FALSE
  /\ bot = "off" /\ isStopping = FALSE /\ cut = FALSE

----------------------------------------------------------------------------
(* main.ts *)

\* waitForPortAvailability, every three seconds.
TryPort ==
  /\ phase = "port"
  /\ \/ phase' = "init" /\ UNCHANGED attempt
     \/ IF attempt = MaxRetries THEN phase' = "failed" /\ UNCHANGED attempt
        ELSE attempt' = attempt + 1 /\ UNCHANGED phase
  /\ UNCHANGED <<leaving, aliveVars, botVars>>

Signal == ~leaving /\ leaving' = TRUE /\ UNCHANGED <<phase, attempt, aliveVars, botVars>>

\* app.listen: the bootstrap hooks, before the port is opened.  The keep-alive
\* service may be switched off.
BootKeepAlive ==
  /\ phase = "init"
  /\ timers' \in {{}, {"initial", "interval"}}
  /\ phase' = "bot"
  /\ UNCHANGED <<attempt, leaving, requests, inProgress, isDestroyed, botVars>>

\* onApplicationBootstrap of the bot: without a token the bot stays off.
BootBot ==
  /\ phase = "bot"
  /\ \E enabled \in BOOLEAN :
       bot' = IF ~enabled THEN "off" ELSE IF Webhook THEN "setting" ELSE "clearing"
  /\ phase' = "up"
  /\ UNCHANGED <<attempt, leaving, aliveVars, isStopping, cut>>

----------------------------------------------------------------------------
(* The keep-alive service *)

\* ping: not after the end, and never two requests at once.
Ping ==
  IF ~isDestroyed /\ ~inProgress THEN requests' = requests + 1 /\ inProgress' = TRUE
  ELSE UNCHANGED <<requests, inProgress>>

\* Five seconds after the start, and every ten minutes.
TimerFires ==
  /\ \/ "initial" \in timers /\ timers' = timers \ {"initial"}
     \/ "interval" \in timers /\ UNCHANGED timers
  /\ Ping
  /\ UNCHANGED <<phase, attempt, leaving, isDestroyed, botVars>>

\* An answer, an error, the timeout of fifteen seconds or an abort.
RequestEnds ==
  /\ requests # 0
  /\ requests' = requests - 1 /\ inProgress' = FALSE
  /\ UNCHANGED <<phase, attempt, leaving, timers, isDestroyed, botVars>>

\* onModuleDestroy of the keep-alive service.
DestroyKeepAlive ==
  /\ leaving /\ ~isDestroyed
  /\ isDestroyed' = TRUE /\ timers' = {}
  /\ UNCHANGED <<phase, attempt, leaving, requests, inProgress, botVars>>

----------------------------------------------------------------------------
(* The bot *)

BotGoes(from, to) ==
  /\ bot = from /\ bot' = to
  /\ UNCHANGED <<phase, attempt, leaving, aliveVars, isStopping, cut>>

\* setWebhook; when it fails, polling.
WebhookSet == BotGoes("setting", "webhook")
WebhookRefused == BotGoes("setting", "clearing")

\* Fault: the supervisor looks at nothing before it launches again.
NextLaunchAlways == "launching"

\* "while (!this.isStopping)"
NextLaunch == IF isStopping THEN "off" ELSE "launching"

\* deleteWebhook has answered, or failed.
WebhookCleared == BotGoes("clearing", NextLaunch)

\* bot.launch asks who the bot is before it polls.
Launched == BotGoes("launching", "polling")

\* It throws, for a conflict with another container for one: five seconds.
LaunchFails ==
  \/ BotGoes("launching", IF isStopping THEN "off" ELSE "waiting")
  \/ BotGoes("polling", IF isStopping THEN "off" ELSE "waiting")
Waited == BotGoes("waiting", NextLaunch)

\* Polling that was stopped ends normally.
PollingEnds == BotGoes("ending", NextLaunch)

\* onModuleDestroy of the bot: what polls is stopped.  A bot that is just
\* being launched is not polling yet and cannot be stopped.
DestroyBot ==
  /\ leaving /\ ~isStopping
  /\ isStopping' = TRUE
  /\ bot' = IF bot = "polling" THEN "ending" ELSE bot
  /\ cut' = (bot = "launching")
  /\ UNCHANGED <<phase, attempt, leaving, aliveVars>>

----------------------------------------------------------------------------
BotReturns == WebhookSet \/ WebhookRefused \/ WebhookCleared \/ Launched \/ Waited \/ PollingEnds
Hooks == DestroyKeepAlive \/ DestroyBot

LifeNext ==
  \/ TryPort \/ Signal \/ BootKeepAlive \/ BootBot
  \/ TimerFires \/ RequestEnds \/ BotReturns \/ LaunchFails \/ Hooks

\* Timers fire, requests end or time out, the hooks are called.
LifeFairness ==
  /\ WF_lifeVars(TimerFires) /\ WF_lifeVars(RequestEnds)
  /\ WF_lifeVars(BotReturns)
  /\ WF_lifeVars(DestroyKeepAlive) /\ WF_lifeVars(DestroyBot)

LifeSpec == LifeInit /\ [][LifeNext]_lifeVars /\ LifeFairness
----------------------------------------------------------------------------
LifeTypeOK ==
  /\ phase \in {"port", "init", "bot", "up", "failed"} /\ attempt \in 0 .. MaxRetries
  /\ timers \subseteq {"initial", "interval"}
  /\ requests \in 0 .. 1 /\ inProgress = (requests = 1)
  /\ bot \in {"off", "setting", "webhook", "clearing", "launching", "polling", "ending",
              "waiting"}
  /\ leaving \in BOOLEAN /\ isDestroyed \in BOOLEAN /\ isStopping \in BOOLEAN
  /\ cut \in BOOLEAN

\* After a signal, wherever it finds the pings, the launch of the bot, its
\* retries or its own start, the process comes to a rest in which it neither
\* asks nor polls again; unless the signal came while the bot was being launched.
StopsForGood ==
  leaving ~> [](requests = 0 /\ (cut \/ bot \in {"off", "webhook"}))
=============================================================================
