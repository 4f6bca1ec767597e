---------------------------- MODULE ControlPlane ----------------------------
(***************************************************************************)
(* ControlPlane (src/ControlPlane.cpp): the watchdog service threads, which *)
(* wait for their period or for a stop token and then tick, the control     *)
(* event thread, which applies the DHCP configuration the GUI writes, and   *)
(* stop(), which hands every thread one token of a semaphore eventfd.       *)
(*                                                                          *)
(* The GUI thread both writes the configuration (DhcpConfigDialog::on_apply)*)
(* and calls stop(), so it is one process here.  DHCP_POOL_START and _END   *)
(* are std::strings that it assigns while the control thread may read them: *)
(* a field being assigned holds Torn, and a read of Torn yields any value.  *)
(* What a service does in its tick is the business of other modules.        *)
(***************************************************************************)
EXTENDS Naturals, FiniteSets

CONSTANTS Service,   \* the watchdog services
          Ctl,       \* the control event thread
          Addr,      \* pool bounds, as numbers
          Lease,     \* lease durations
          Torn,      \* content of a string that is being assigned
          Bad,       \* a string that does not parse
          Edits      \* bound on the configurations the GUI applies

ASSUME ControlConstants ==
  /\ IsFiniteSet(Service) /\ Ctl \notin Service
  /\ Addr \subseteq Nat /\ Addr # {}
  /\ Torn \notin Addr /\ Bad \notin Addr /\ Torn # Bad
  /\ Lease # {} /\ Edits \in Nat

Thread == Service \cup {Ctl}

\* What on_apply lets through: parsed bounds with start < end.
Settings == {c \in [start : Addr, end : Addr, lease : Lease] : c.start < c.end}

VARIABLES running,   \* running_
          main,      \* the GUI thread: its step of on_apply or of stop()
          open,      \* watchdog_stop_efd_ and dhcp_cfg_efd_ are open
          stop_efd,  \* tokens of the semaphore
          cfg_efd,   \* dhcp_cfg_efd_ is readable
          pc,        \* each thread's position in its loop
          config,    \* DHCP_POOL_START, DHCP_POOL_END, DHCP_LEASE_DURATION
          draft,     \* what the dialog's fields hold
          read,      \* pool_s and pool_e of applyDhcpConfig
          engine,    \* pool bounds and lease of the DHCP engine
          edits      \* configurations applied so far, for the bound

gui == <<config, draft, edits>>
vars == <<running, main, open, stop_efd, cfg_efd, pc, gui, read, engine>>

\* The state once start() has returned.
Init == /\ running = TRUE /\ main = "run" /\ open = TRUE
        /\ stop_efd = 0 /\ cfg_efd = FALSE
        /\ pc = [t \in Thread |-> "loop"]
        /\ config \in Settings
        /\ draft = config /\ engine = config
        /\ read = [start |-> Bad, end |-> Bad]
        /\ edits = 0

Goto(t, label) == pc' = [pc EXCEPT ![t] = label]

(***************************************************************************)
(* The GUI thread: on_apply assigns the three settings, then signals.      *)
(***************************************************************************)
Edit(c) == /\ main = "run" /\ edits < Edits
           /\ main' = "start" /\ draft' = c /\ edits' = edits + 1
           /\ config' = [config EXCEPT !.start = Torn]
           /\ UNCHANGED <<running, open, stop_efd, cfg_efd, pc, read, engine>>

EditStart == /\ main = "start" /\ main' = "end"
             /\ config' = [config EXCEPT !.start = draft.start, !.end = Torn]
             /\ UNCHANGED <<running, open, stop_efd, cfg_efd, pc, draft, edits, read, engine>>

EditEnd == /\ main = "end" /\ main' = "lease"
           /\ config' = [config EXCEPT !.end = draft.end]
           /\ UNCHANGED <<running, open, stop_efd, cfg_efd, pc, draft, edits, read, engine>>

EditLease == /\ main = "lease" /\ main' = "signal"
             /\ config' = [config EXCEPT !.lease = draft.lease]
             /\ UNCHANGED <<running, open, stop_efd, cfg_efd, pc, draft, edits, read, engine>>

RequestApply == /\ main = "signal" /\ main' = "run"
                /\ cfg_efd' = (cfg_efd \/ open)
                /\ UNCHANGED <<running, open, stop_efd, pc, gui, read, engine>>

(***************************************************************************)
(* The GUI thread: stop().                                                 *)
(***************************************************************************)
StopBegin == /\ main = "run" /\ main' = "wake"
             /\ running' = FALSE
             /\ UNCHANGED <<open, stop_efd, cfg_efd, pc, gui, read, engine>>

WakeServicesOnly == /\ main = "wake" /\ main' = "join"
                    /\ stop_efd' = stop_efd + Cardinality(Service)
                    /\ UNCHANGED <<running, open, cfg_efd, pc, gui, read, engine>>

\* WATCHDOG_SERVICE_COUNT + 1 tokens.
WakeWatchdog == /\ main = "wake" /\ main' = "join"
                /\ stop_efd' = stop_efd + Cardinality(Service) + 1
                /\ UNCHANGED <<running, open, cfg_efd, pc, gui, read, engine>>

JoinServicesAndClose == /\ main = "join" /\ main' = "stopped"
                        /\ \A t \in Service : pc[t] = "done"
                        /\ open' = FALSE
                        /\ UNCHANGED <<running, stop_efd, cfg_efd, pc, gui, read, engine>>

JoinAndClose == /\ main = "join" /\ main' = "stopped"
                /\ \A t \in Thread : pc[t] = "done"
                /\ open' = FALSE
                /\ UNCHANGED <<running, stop_efd, cfg_efd, pc, gui, read, engine>>

(***************************************************************************)
(* All threads: the loop condition, a failing poll, the stop token.        *)
(***************************************************************************)
Loop(t) == /\ pc[t] = "loop"
           /\ Goto(t, IF running THEN "poll" ELSE "done")
           /\ UNCHANGED <<running, main, open, stop_efd, cfg_efd, gui, read, engine>>

PollFails(t) == /\ pc[t] = "poll"
                /\ Goto(t, "done")
                /\ UNCHANGED <<running, main, open, stop_efd, cfg_efd, gui, read, engine>>

PollStop(t) == /\ pc[t] = "poll" /\ stop_efd > 0
               /\ Goto(t, "readstop")
               /\ UNCHANGED <<running, main, open, stop_efd, cfg_efd, gui, read, engine>>

\* eventfd_read blocks while the semaphore is zero.
ReadStop(t) == /\ pc[t] = "readstop" /\ stop_efd > 0
               /\ stop_efd' = stop_efd - 1
               /\ Goto(t, "done")
               /\ UNCHANGED <<running, main, open, cfg_efd, gui, read, engine>>

(***************************************************************************)
(* A service: its period runs out, it looks at running_ again and ticks.   *)
(***************************************************************************)
PollTimeout(t) == /\ t # Ctl /\ pc[t] = "poll" /\ stop_efd = 0
                  /\ Goto(t, "check")
                  /\ UNCHANGED <<running, main, open, stop_efd, cfg_efd, gui, read, engine>>

Check(t) == /\ t # Ctl /\ pc[t] = "check"
            /\ Goto(t, IF running THEN "tick" ELSE "done")
            /\ UNCHANGED <<running, main, open, stop_efd, cfg_efd, gui, read, engine>>

Tick(t) == /\ t # Ctl /\ pc[t] = "tick"
           /\ Goto(t, "loop")
           /\ UNCHANGED <<running, main, open, stop_efd, cfg_efd, gui, read, engine>>

(***************************************************************************)
(* The control event thread.  A stop token wins over a configuration.      *)
(***************************************************************************)
PollConfig == /\ pc[Ctl] = "poll" /\ stop_efd = 0 /\ cfg_efd
              /\ Goto(Ctl, "readcfg")
              /\ UNCHANGED <<running, main, open, stop_efd, cfg_efd, gui, read, engine>>

ReadConfigEfd == /\ pc[Ctl] = "readcfg"
                 /\ cfg_efd' = FALSE
                 /\ Goto(Ctl, IF running THEN "start" ELSE "loop")
                 /\ UNCHANGED <<running, main, open, stop_efd, gui, read, engine>>

\* parse_ip_str of a string the GUI may be assigning.
Parsed(field) == IF field = Torn THEN Addr \cup {Bad} ELSE {field}

ReadStart == /\ pc[Ctl] = "start"
             /\ \E a \in Parsed(config.start) : read' = [read EXCEPT !.start = a]
             /\ Goto(Ctl, "end")
             /\ UNCHANGED <<running, main, open, stop_efd, cfg_efd, gui, engine>>

ReadEnd == /\ pc[Ctl] = "end"
           /\ \E a \in Parsed(config.end) :
                /\ read' = [read EXCEPT !.end = a]
                /\ Goto(Ctl, IF Bad \in {read.start, a} THEN "loop" ELSE "reconfigure")
           /\ UNCHANGED <<running, main, open, stop_efd, cfg_efd, gui, engine>>

\* DhcpEngine::reconfigure stores the lease before init_pool rejects the bounds.
Reconfigure ==
  /\ pc[Ctl] = "reconfigure"
  /\ IF read.end < read.start
       THEN /\ engine' = [engine EXCEPT !.lease = config.lease]
            /\ Goto(Ctl, "loop")
       ELSE /\ engine' = [start |-> read.start, end |-> read.end, lease |-> config.lease]
            /\ Goto(Ctl, "applied")
  /\ UNCHANGED <<running, main, open, stop_efd, cfg_efd, gui, read>>

AppliedThenDrain == /\ pc[Ctl] = "applied"
                    /\ Goto(Ctl, "loop")
                    /\ cfg_efd' = FALSE
                    /\ UNCHANGED <<running, main, open, stop_efd, gui, read, engine>>

\* dhcp_applied_: NetworkConfig::sync and save_config, modelled in LanConfig.
Applied == /\ pc[Ctl] = "applied"
           /\ Goto(Ctl, "loop")
           /\ UNCHANGED <<running, main, open, stop_efd, cfg_efd, gui, read, engine>>

Main == \/ \E c \in Settings : Edit(c)
        \/ EditStart \/ EditEnd \/ EditLease \/ RequestApply
        \/ StopBegin \/ WakeWatchdog \/ JoinAndClose

Control == \/ PollConfig \/ ReadConfigEfd \/ ReadStart \/ ReadEnd
           \/ Reconfigure \/ Applied

Step(t) == \/ Loop(t) \/ PollStop(t) \/ ReadStop(t)
           \/ PollTimeout(t) \/ Check(t) \/ Tick(t)

Next == \/ Main
        \/ Control
        \/ \E t \in Thread : Step(t) \/ PollFails(t)

Spec == Init /\ [][Next]_vars

\* Every thread that can run does: the services and the control thread run on
\* cores 0-1 at normal priority, and stop() runs to its end.
Fairness == /\ \A t \in Service : WF_vars(Step(t))
            /\ WF_vars(Control \/ Step(Ctl))
            /\ WF_vars(EditStart \/ EditEnd \/ EditLease \/ RequestApply)
            /\ WF_vars(WakeWatchdog \/ JoinAndClose)

FairSpec == Spec /\ Fairness

(***************************************************************************)
(* Properties.                                                             *)
(***************************************************************************)

\* The state has the expected shape; in particular the semaphore never holds
\* more tokens than wake_watchdog writes.
TypeOK ==
  /\ running \in BOOLEAN /\ open \in BOOLEAN /\ cfg_efd \in BOOLEAN
  /\ main \in {"run", "start", "end", "lease", "signal", "wake", "join", "stopped"}
  /\ stop_efd \in 0 .. Cardinality(Service) + 1
  /\ pc \in [Thread -> {"loop", "poll", "readstop", "check", "tick", "readcfg", "start",
                        "end", "reconfigure", "applied", "done"}]
  /\ config \in [start : Addr \cup {Torn}, end : Addr \cup {Torn}, lease : Lease]
  /\ draft \in Settings
  /\ read \in [start : Addr \cup {Bad}, end : Addr \cup {Bad}]
  /\ engine \in [start : Addr, end : Addr, lease : Lease]
  /\ edits \in 0 .. Edits

\* A thread that poll told of a stop token finds one when it reads the
\* semaphore, although the other threads were told of the same token: the
\* blocking eventfd_read never hangs, so stop() can join the thread.
StopReadNeverBlocks == \A t \in Thread : pc[t] = "readstop" => stop_efd > 0

\* stop() closes the descriptors only when no thread can poll or read them.
DescriptorsOutliveThreads == ~open => \A t \in Thread : pc[t] = "done"

\* No DHCP change is lost: once the GUI is done with its edits and the control
\* thread is back at its poll with nothing to read, the engine runs exactly
\* the pool and lease of the configuration, whatever it read meanwhile from
\* settings that were only half written.
ConfigApplied ==
  (main = "run" /\ ~cfg_efd /\ pc[Ctl] \in {"loop", "poll"}) => engine = config

\* The settings the GUI applies reach the DHCP engine, unless the control
\* plane is stopped or the control thread's poll failed.
ConfigEventuallyApplied == <>[](engine = config \/ ~running \/ pc[Ctl] = "done")

\* stop() returns: every service and the control thread take a token or see
\* running_ and can be joined.
StopReturns == (main = "wake") ~> (main = "stopped")
====
