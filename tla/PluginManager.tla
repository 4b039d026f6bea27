---------------------------- MODULE PluginManager ----------------------------
(***************************************************************************)
(* The plugin manager service (plugin/service.go).                         *)
(*                                                                         *)
(* Two kinds of actors share one PluginManager:                            *)
(*  - the node, which calls Start once and, if it succeeded, Stop once;    *)
(*    both walk initializedPlugins in Go's (unspecified) map order;        *)
(*  - services calling GetPluginTemplate(name, v) concurrently, each with  *)
(*    its own template pointer v (caller c's template is named c).         *)
(* initializedPlugins is filled by NewPluginManager and never changes; the *)
(* lazily filled cache `plugins` is written under mux but read without it  *)
(* at line 93.  A Go map read concurrent with a map write is undefined:    *)
(* the runtime may throw "concurrent map read and map write", which ends   *)
(* the process; the model keeps both outcomes.                             *)
(* basePlugin.Start and Stop are not in the repository: each either        *)
(* succeeds (the plugin is running, resp. stopped) or fails and leaves the *)
(* plugin as it was.                                                       *)
(***************************************************************************)
EXTENDS FiniteSets

CONSTANTS
  Plugins,   \* names configured in settings.Providers (initializedPlugins)
  Unknown,   \* names a caller may ask for that are not configured
  Callers,   \* goroutines calling GetPluginTemplate, one call each
  Nil        \* nil pointer / absent map entry

ASSUME Nil \notin Plugins \cup Unknown \cup Callers

Names == Plugins \cup Unknown
MgrPcs == {"new", "starting", "rollback", "started", "startFailed",
           "stopping", "stopped"}
CallerPcs == {"idle", "read", "base", "lock", "write", "done"}
Results == {"none", "nil", "errInvalidArg", "errNotFound", "errTemplate"}

VARIABLES
  running,          \* plugin process is up
  mgrPc,            \* where the node's Start / Stop call is
  pending,          \* plugins the current range loop has not visited
  startedPlugins,   \* Start: the plugins started so far (line 45)
  stopFailed,       \* plugins whose Stop returned an error
  startErr,         \* Start's named result err
  plugins,          \* the template cache: name -> caller whose v is cached
  mux,              \* holder of s.mux, or Nil
  callerPc, callerName, extendsBase, base, result,
  fatal             \* the Go runtime threw on a concurrent map access

mgrVars == <<running, mgrPc, pending, startedPlugins, stopFailed, startErr>>
callerVars == <<callerPc, callerName, extendsBase, base, result>>
vars == <<mgrVars, plugins, mux, callerVars, fatal>>

\* NewPluginManager: both maps made empty, initializedPlugins filled from
\* settings.Providers (a fixed set here); no plugin is running yet.
Init ==
  /\ running = [p \in Plugins |-> FALSE]
  /\ mgrPc = "new" /\ pending = {} /\ startedPlugins = {}
  /\ stopFailed = {} /\ startErr = FALSE
  /\ plugins = [n \in Names |-> Nil]
  /\ mux = Nil
  /\ callerPc = [c \in Callers |-> "idle"]
  /\ callerName = [c \in Callers |-> Nil]
  /\ extendsBase = [c \in Callers |-> FALSE]
  /\ base = [c \in Callers |-> Nil]
  /\ result = [c \in Callers |-> "none"]
  /\ fatal = FALSE

-----------------------------------------------------------------------------
(* Start and Stop, called by the node.                                     *)

StartBegin ==
  /\ mgrPc = "new"
  /\ mgrPc' = "starting" /\ pending' = Plugins /\ startedPlugins' = {}
  /\ UNCHANGED <<running, stopFailed, startErr>>

\* Mutant: the append of line 50 is lost.
StartPluginNoAppend(p) ==
  /\ mgrPc = "starting" /\ p \in pending
  /\ pending' = pending \ {p}
  /\ \/ /\ running' = [running EXCEPT ![p] = TRUE]
        /\ UNCHANGED <<mgrPc, startErr, startedPlugins>>
     \/ /\ startErr' = TRUE /\ mgrPc' = "rollback"
        /\ UNCHANGED <<running, startedPlugins>>
  /\ UNCHANGED stopFailed

\* One iteration of the range loop: p.Start() succeeds and p is appended to
\* startedPlugins, or it fails and the loop breaks.
StartPlugin(p) ==
  /\ mgrPc = "starting" /\ p \in pending
  /\ pending' = pending \ {p}
  /\ \/ /\ running' = [running EXCEPT ![p] = TRUE]
        /\ startedPlugins' = startedPlugins \cup {p}
        /\ UNCHANGED <<mgrPc, startErr>>
     \/ /\ startErr' = TRUE /\ mgrPc' = "rollback"
        /\ UNCHANGED <<running, startedPlugins>>
  /\ UNCHANGED stopFailed

\* The loop ran over every plugin without an error: Start returns nil.
StartReturn ==
  /\ mgrPc = "starting" /\ pending = {}
  /\ mgrPc' = "started"
  /\ UNCHANGED <<running, pending, startedPlugins, stopFailed, startErr>>

\* err != nil: `_ = p.Stop()` for one started plugin; its error is dropped.
StartRollback(p) ==
  /\ mgrPc = "rollback" /\ p \in startedPlugins
  /\ startedPlugins' = startedPlugins \ {p}
  /\ \/ running' = [running EXCEPT ![p] = FALSE] /\ UNCHANGED stopFailed
     \/ stopFailed' = stopFailed \cup {p} /\ UNCHANGED running
  /\ UNCHANGED <<mgrPc, pending, startErr>>

StartRollbackDone ==
  /\ mgrPc = "rollback" /\ startedPlugins = {}
  /\ mgrPc' = "startFailed"
  /\ UNCHANGED <<running, pending, startedPlugins, stopFailed, startErr>>

\* The node stops a service only if its Start returned nil.
StopBegin ==
  /\ mgrPc = "started"
  /\ mgrPc' = "stopping" /\ pending' = Plugins /\ stopFailed' = {}
  /\ UNCHANGED <<running, startedPlugins, startErr>>

\* Mutant: a failing p.Stop() is not appended to allErrors.
StopPluginDropError(p) ==
  /\ mgrPc = "stopping" /\ p \in pending
  /\ pending' = pending \ {p}
  /\ \/ running' = [running EXCEPT ![p] = FALSE]
     \/ UNCHANGED running
  /\ UNCHANGED <<mgrPc, startedPlugins, startErr, stopFailed>>

\* One iteration: p.Stop(), its error appended to allErrors.
StopPlugin(p) ==
  /\ mgrPc = "stopping" /\ p \in pending
  /\ pending' = pending \ {p}
  /\ \/ running' = [running EXCEPT ![p] = FALSE] /\ UNCHANGED stopFailed
     \/ stopFailed' = stopFailed \cup {p} /\ UNCHANGED running
  /\ UNCHANGED <<mgrPc, startedPlugins, startErr>>

\* Stop returns nil iff allErrors is empty.
StopReturn ==
  /\ mgrPc = "stopping" /\ pending = {}
  /\ mgrPc' = "stopped"
  /\ UNCHANGED <<running, pending, startedPlugins, stopFailed, startErr>>

-----------------------------------------------------------------------------
(* GetPluginTemplate(name, v), one call per caller.                        *)

Writing == {c \in Callers : callerPc[c] = "write"}

CallSteps(c, pc2, res) ==
  /\ callerPc' = [callerPc EXCEPT ![c] = pc2]
  /\ result' = [result EXCEPT ![c] = res]

\* Entry: v must be a non-nil pointer (line 81); the template type either
\* embeds *basePlugin as field basePlugin or not (line 108).
CallTemplate(c) ==
  /\ callerPc[c] = "idle"
  /\ \E n \in Names, isPtr \in BOOLEAN, ext \in BOOLEAN :
       /\ callerName' = [callerName EXCEPT ![c] = n]
       /\ extendsBase' = [extendsBase EXCEPT ![c] = ext]
       /\ IF isPtr THEN CallSteps(c, "read", "none")
                   ELSE CallSteps(c, "done", "errInvalidArg")
  /\ UNCHANGED <<mgrVars, plugins, mux, base, fatal>>

\* Line 93, without s.mux: a cache hit copies the cached template into *v,
\* its basePlugin pointer included.  While another caller is inside the
\* map assignment of line 119 the read may instead make the runtime throw.
ReadCache(c) ==
  /\ callerPc[c] = "read"
  /\ LET n == callerName[c] IN
     \/ /\ Writing # {}
        /\ fatal' = TRUE
        /\ UNCHANGED <<mgrVars, plugins, mux, callerVars>>
     \/ /\ IF plugins[n] # Nil
             THEN /\ base' = [base EXCEPT ![c] = base[plugins[n]]]
                  /\ CallSteps(c, "done", "nil")
             ELSE /\ CallSteps(c, "base", "none")
                  /\ UNCHANGED base
        /\ UNCHANGED <<mgrVars, plugins, mux, callerName, extendsBase, fatal>>

\* Mutant: the basePlugin field is set on a copy of *v, not on *v.
LookupBaseOnCopy(c) ==
  /\ callerPc[c] = "base"
  /\ LET n == callerName[c] IN
     CASE n \notin Plugins -> CallSteps(c, "done", "errNotFound")
       [] ~extendsBase[c] -> CallSteps(c, "done", "errTemplate")
       [] OTHER -> CallSteps(c, "lock", "none")
  /\ UNCHANGED <<mgrVars, plugins, mux, callerName, extendsBase, base, fatal>>

\* Lines 99-116: look the name up in initializedPlugins and set v's
\* basePlugin field to it, or return the error.
LookupBase(c) ==
  /\ callerPc[c] = "base"
  /\ LET n == callerName[c] IN
     CASE n \notin Plugins ->
            CallSteps(c, "done", "errNotFound") /\ UNCHANGED base
       [] ~extendsBase[c] ->
            CallSteps(c, "done", "errTemplate") /\ UNCHANGED base
       [] OTHER ->
            /\ base' = [base EXCEPT ![c] = n]
            /\ CallSteps(c, "lock", "none")
  /\ UNCHANGED <<mgrVars, plugins, mux, callerName, extendsBase, fatal>>

LockMux(c) ==
  /\ callerPc[c] = "lock" /\ mux = Nil
  /\ mux' = c
  /\ CallSteps(c, "write", "none")
  /\ UNCHANGED <<mgrVars, plugins, callerName, extendsBase, base, fatal>>

\* Line 119 and the deferred unlock: cache v under its name, return nil.
WriteCache(c) ==
  /\ callerPc[c] = "write"
  /\ plugins' = [plugins EXCEPT ![callerName[c]] = c]
  /\ mux' = Nil
  /\ CallSteps(c, "done", "nil")
  /\ UNCHANGED <<mgrVars, callerName, extendsBase, base, fatal>>

-----------------------------------------------------------------------------
Next ==
  /\ ~fatal
  /\ \/ /\ \/ StartBegin \/ StartReturn \/ StartRollbackDone
           \/ StopBegin \/ StopReturn
           \/ \E p \in Plugins :
                StartPlugin(p) \/ StartRollback(p) \/ StopPlugin(p)
        /\ UNCHANGED <<plugins, mux, callerVars, fatal>>
     \/ \E c \in Callers : \/ CallTemplate(c) \/ ReadCache(c)
                           \/ LookupBase(c) \/ LockMux(c) \/ WriteCache(c)

Spec == Init /\ [][Next]_vars

-----------------------------------------------------------------------------
(* Properties.                                                             *)

\* When Start has returned an error, its rollback (lines 53-56) has called
\* Stop on every plugin it started: a plugin still running is one whose
\* Stop failed, never one the rollback forgot.
StartFailureRollsBack ==
  mgrPc = "startFailed" =>
    \A p \in Plugins : running[p] => p \in stopFailed

\* When Stop has returned nil (allErrors empty, line 132), no plugin is
\* left running.
StopNilMeansAllStopped ==
  (mgrPc = "stopped" /\ stopFailed = {}) =>
    \A p \in Plugins : ~running[p]

\* Every GetPluginTemplate that returned nil left v extending the
\* initialized plugin of the name asked for, whether v was filled from the
\* cache by one caller or from initializedPlugins by another.
TemplateBoundToPlugin ==
  \A c \in Callers :
    (callerPc[c] = "done" /\ result[c] = "nil") => base[c] = callerName[c]

\* No concurrent read and write of the plugins map ever makes the Go
\* runtime throw (line 93 against line 119).
NoConcurrentMapAccess == ~fatal

=============================================================================
