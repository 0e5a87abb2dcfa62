------------------------------- MODULE Server -------------------------------
(***************************************************************************)
(* cmd/server/main.go: the life of the process.  main builds the handler   *)
(* (module Startup), starts the goroutine that waits for a signal and      *)
(* blocks in ListenAndServe; the process ends when that returns.  The two  *)
(* goroutines share one http.Server, modelled from how main.go uses it:    *)
(* Shutdown raises a flag, closes the listener and waits for the requests  *)
(* in progress; ListenAndServe returns as soon as the flag is up, or with  *)
(* an error of the listener.  The handling of a request (module Gateway)   *)
(* is one step here.                                                       *)
(***************************************************************************)
EXTENDS Startup

CONSTANTS
    Connections     \* requests that may arrive

VARIABLES
    process,        \* where main is
    exitCode,       \* exit status, NotExited before
    watcher,        \* the signal goroutine
    signals,        \* signals sent to the process and not yet seen
    inShutdown,     \* the flag of http.Server
    acceptError,    \* Accept has returned an error that is not temporary
    request         \* what has become of each request

serverVars == <<process, exitCode, watcher, signals, inShutdown, acceptError, request>>
vars == <<startupVars, serverVars>>

NotExited == 99

Processes == {"building", "starting", "binding", "serving", "failing", "exited"}
Watchers == {"unborn", "starting", "waiting", "notified", "draining", "done"}
Fates == {"unborn", "active", "answered", "refused", "cut"}

Running == process # "exited"

-----------------------------------------------------------------------------
(* main                                                                    *)

\* The process ends and takes every goroutine and connection with it.
Exit(code) ==
    /\ process' = "exited"
    /\ exitCode' = code
    /\ request' = [c \in Connections |-> IF request[c] = "active" THEN "cut" ELSE request[c]]
    /\ UNCHANGED <<startupVars, watcher, signals, inShutdown, acceptError>>

\* loadEnvFile, config.Load and proxy.New, step by step.
BuildHandler ==
    /\ process = "building"
    /\ StartupNext
    /\ UNCHANGED serverVars

\* The handler is built: main starts the signal goroutine and goes on.
HandlerBuilt ==
    /\ process = "building" /\ pc = "serving"
    /\ process' = "starting"
    /\ watcher' = "starting"
    /\ UNCHANGED <<startupVars, exitCode, signals, inShutdown, acceptError, request>>

\* proxy.New returns an error: log and os.Exit(1).
BuildFails ==
    /\ process = "building" /\ pc = "refused"
    /\ Exit(1)

\* ListenAndServe looks at the flag, then binds the address.
CheckFlag ==
    /\ process = "starting" /\ ~inShutdown
    /\ process' = "binding"
    /\ UNCHANGED <<startupVars, exitCode, watcher, signals, inShutdown, acceptError, request>>

Listen ==
    /\ process = "binding"
    /\ process' = "serving"
    /\ UNCHANGED <<startupVars, exitCode, watcher, signals, inShutdown, acceptError, request>>

\* The address cannot be bound: ListenAndServe returns the error.
BindFails ==
    /\ process = "binding"
    /\ process' = "failing"
    /\ UNCHANGED <<startupVars, exitCode, watcher, signals, inShutdown, acceptError, request>>

\* The listener fails while it is open.  Serve tries again by itself after an
\* error that is temporary.
AcceptFails ==
    /\ process = "serving" /\ ~acceptError
    /\ acceptError' = TRUE
    /\ UNCHANGED <<startupVars, process, exitCode, watcher, signals, inShutdown, request>>

\* ListenAndServe returns that error, unless the flag is up.
ServeFails ==
    /\ process = "serving" /\ acceptError /\ ~inShutdown
    /\ process' = "failing"
    /\ UNCHANGED <<startupVars, exitCode, watcher, signals, inShutdown, acceptError, request>>

\* An error that is not ErrServerClosed: log and os.Exit(1).
ServerError ==
    /\ process = "failing"
    /\ Exit(1)

\* Variant: main reports ErrServerClosed like any other error.
ServerClosedIsError ==
    /\ process \in {"starting", "serving"} /\ inShutdown
    /\ Exit(1)

\* ListenAndServe returns ErrServerClosed, before it listens or while it
\* serves: main returns.
ServerClosed ==
    /\ process \in {"starting", "serving"} /\ inShutdown
    /\ Exit(0)

-----------------------------------------------------------------------------
(* The signal goroutine                                                    *)

\* signal.Notify for SIGINT and SIGTERM.
Notify ==
    /\ Running /\ watcher = "starting"
    /\ watcher' = "waiting"
    /\ UNCHANGED <<startupVars, process, exitCode, signals, inShutdown, acceptError, request>>

\* Variant: a channel that has room for every signal.
SignalQueued ==
    /\ Running /\ watcher \notin {"unborn", "starting"}
    /\ signals' = signals + 1
    /\ UNCHANGED <<startupVars, process, exitCode, watcher, inShutdown, acceptError, request>>

\* A signal after Notify is kept in sigCh, which has room for one.
Signal ==
    /\ Running /\ watcher \notin {"unborn", "starting"}
    /\ signals' = 1
    /\ UNCHANGED <<startupVars, process, exitCode, watcher, inShutdown, acceptError, request>>

\* A signal before Notify has its default effect.
SignalKills ==
    /\ Running /\ watcher \in {"unborn", "starting"}
    /\ Exit(2)

\* Variant: the goroutine goes back to wait for another signal.
TakeSignalOnly ==
    /\ Running /\ watcher = "waiting" /\ signals = 1
    /\ signals' = 0
    /\ UNCHANGED <<startupVars, process, exitCode, watcher, inShutdown, acceptError, request>>

TakeSignal ==
    /\ Running /\ watcher = "waiting" /\ signals = 1
    /\ watcher' = "notified"
    /\ signals' = 0
    /\ UNCHANGED <<startupVars, process, exitCode, inShutdown, acceptError, request>>

Shutdown ==
    /\ Running /\ watcher = "notified"
    /\ watcher' = "draining"
    /\ inShutdown' = TRUE
    /\ UNCHANGED <<startupVars, process, exitCode, signals, acceptError, request>>

\* Shutdown returns: every request is answered, or 30 s have passed.
ShutdownReturns ==
    /\ Running /\ watcher = "draining"
    /\ watcher' = "done"
    /\ UNCHANGED <<startupVars, process, exitCode, signals, inShutdown, acceptError, request>>

-----------------------------------------------------------------------------
(* The clients                                                             *)

Arrive(c) ==
    /\ request[c] = "unborn"
    /\ request' = [request EXCEPT ![c] = IF process = "serving" /\ ~inShutdown THEN "active" ELSE "refused"]
    /\ UNCHANGED <<startupVars, process, exitCode, watcher, signals, inShutdown, acceptError>>

Answer(c) ==
    /\ Running /\ request[c] = "active"
    /\ request' = [request EXCEPT ![c] = "answered"]
    /\ UNCHANGED <<startupVars, process, exitCode, watcher, signals, inShutdown, acceptError>>

-----------------------------------------------------------------------------

Init ==
    /\ StartupInit
    /\ process = "building"
    /\ exitCode = NotExited
    /\ watcher = "unborn"
    /\ signals = 0
    /\ inShutdown = FALSE /\ acceptError = FALSE
    /\ request = [c \in Connections |-> "unborn"]

Main ==
    \/ BuildHandler \/ HandlerBuilt \/ BuildFails
    \/ CheckFlag \/ Listen \/ BindFails
    \/ ServeFails \/ ServerError \/ ServerClosed
Watch == Notify \/ TakeSignal \/ Shutdown
Clients == \E c \in Connections : Arrive(c) \/ Answer(c)

Next == Main \/ Watch \/ ShutdownReturns \/ AcceptFails \/ Signal \/ SignalKills \/ Clients

Spec == Init /\ [][Next]_vars

\* Both goroutines are run by the scheduler.  Nothing is assumed of the handlers,
\* which may wait for a client, of Shutdown, which waits for them, and of the
\* listener.
Fairness == WF_vars(Main) /\ WF_vars(Watch)

FairSpec == Spec /\ Fairness

-----------------------------------------------------------------------------
(* Properties                                                              *)

\* The types of the variables.
ServerTypeOK ==
    /\ process \in Processes
    /\ exitCode \in {0, 1, 2, NotExited}
    /\ watcher \in Watchers
    /\ signals \in {0, 1}
    /\ inShutdown \in BOOLEAN /\ acceptError \in BOOLEAN
    /\ request \in [Connections -> Fates]

\* What runs the server can rely on the exit status: 0 is the end that a signal
\* asked for, and 1 is a server that has never served or whose listener failed.
\* No order of startup, signal, Shutdown, Accept and ListenAndServe makes a
\* failure of a stop that was asked for, or hides a failure.
ExitStatusTells ==
    /\ exitCode = 0 => watcher \in {"draining", "done"}
    /\ exitCode = 1 => acceptError \/ \A c \in Connections : request[c] \in {"unborn", "refused"}

\* A signal that Notify has caught stops the process, also when it comes before
\* ListenAndServe listens, and however long the requests in progress take.
SignalStops == signals = 1 ~> process = "exited"

-----------------------------------------------------------------------------
(* What the program says and does not do                                   *)

\* "shutting down gracefully..." (main.go:143), for which the goroutine gives
\* the requests in progress 30 s: the process does not exit with a request
\* unanswered while Shutdown is still waiting for it.
ShutdownDrains ==
    exitCode = 0 /\ watcher # "done" => \A c \in Connections : request[c] # "cut"
=============================================================================
