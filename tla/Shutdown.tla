------------------------------ MODULE Shutdown ------------------------------
(***************************************************************************)
(* How the program starts from config/config.txt, saves it and ends:       *)
(* main() (src/main.cpp), load_config and save_config (src/Config.cpp), the *)
(* shutdown dialog (src/GUI/Dashboard.cpp), App::stop and Lifecycle.        *)
(*                                                                          *)
(* Three threads save the same file without a lock: the control thread      *)
(* after a DHCP change, the detached thread the dialog starts, and main()   *)
(* at its end.  A save truncates the file and then writes it line by line,  *)
(* so the lines not yet written are Missing, also to a program started      *)
(* after this one died meanwhile; and the file is Mixed once a thread goes  *)
(* on writing in a file that another has truncated under it.                *)
(* The settings that matter here are the DHCP pool, which the GUI writes    *)
(* directly, and the acceleration mode, which it hands to the QoS service.  *)
(***************************************************************************)
EXTENDS Naturals

CONSTANTS Pool, DefaultPool,
          Missing,          \* the value of a line that is not in the file
          Mixed,            \* a file in which two saves are interleaved
          Edits,            \* bound on changes of settings
          Dialogs,          \* bound on openings of the dialog
          Restarts          \* bound on restarts, after a crash or not

Settings == [accel : BOOLEAN, pool : Pool]
Defaults == [accel |-> TRUE, pool |-> DefaultPool]
Keys == {"accel", "pool"}
Empty == [accel |-> Missing, pool |-> Missing]
Lines == [accel : BOOLEAN \cup {Missing}, pool : Pool \cup {Missing}]

ASSUME ShutdownConstants ==
  /\ DefaultPool \in Pool /\ Missing \notin Pool \cup BOOLEAN /\ Mixed \notin Lines
  /\ Edits \in Nat /\ Dialogs \in Nat /\ Restarts \in Nat

Control == 0               \* the control thread
Savers == 1 .. Dialogs     \* the thread each opening of the dialog may start
Main == Dialogs + 1
Writer == Savers \cup {Control, Main}

VARIABLES ui,            \* main() and the GUI thread
          config,        \* Config::ENABLE_ACCELERATION and the pool; while
                         \* ui = "load", those of the run that ended
          accel_pending, mode_config_dirty,
          tick, accel_on,  \* the QoS service's position in tick1Hz, and its local
          request,       \* dhcp_cfg_efd_ is readable
          save_on_exit,  \* SAVE_ON_EXIT
          file,          \* config/config.txt
          save,          \* each writer's position in save_config
          stale,         \* writers whose file another writer truncated
          lost,          \* history: settings whose line is not the one in effect
          early,         \* history: the mode was saved before a tick had applied it
          failed,        \* history: writers but Control that could not open the file
          escaped,       \* history: the dialog was left while it saved
          running,       \* the services' running_
          posted,        \* shutdown callbacks in the GUI's event queue
          quit,          \* quit is in the GUI's event queue
          complete,      \* Lifecycle::complete_
          edits, dialogs, restarts

qos == <<tick, accel_on>>
gui == <<accel_pending, mode_config_dirty, qos, edits>>
bounds == <<dialogs, restarts>>
store == <<file, save, stale, failed, lost, early>>
life == <<running, posted, quit, complete>>
vars == <<ui, config, gui, request, save_on_exit, store, life, bounds, escaped>>

Init == /\ ui = "load" /\ config = Defaults
        /\ accel_pending = TRUE /\ mode_config_dirty = FALSE /\ request = FALSE
        /\ tick = "sleep" /\ accel_on = TRUE
        /\ save_on_exit = TRUE /\ file \in Lines
        /\ save = [w \in Writer |-> "idle"] /\ stale = {} /\ failed = {} /\ escaped = FALSE
        /\ lost = Keys /\ early = FALSE /\ running = FALSE
        /\ posted = 0 /\ quit = FALSE /\ complete = FALSE
        /\ edits = 0 /\ dialogs = 0 /\ restarts = 0

LoadWholeFile == /\ ui = "load" /\ ui' = "loop" /\ running' = TRUE
                 /\ file # Mixed /\ config' = [k \in Keys |-> IF Missing \in {file[j] : j \in Keys}
                                                              THEN Defaults[k] ELSE file[k]]
                 /\ accel_pending' = config'.accel /\ lost' = {}
                 /\ UNCHANGED <<mode_config_dirty, qos, edits, request, save_on_exit, file, save, stale, failed,
                                early, posted, quit, complete, bounds, escaped>>

\* load_config, App::init and App::start.  A line that the file lacks leaves
\* the default; what two interleaved saves left may be read as any settings.
Load == /\ ui = "load" /\ ui' = "loop" /\ running' = TRUE
        /\ \/ /\ file # Mixed /\ lost' = {}
              /\ config' = [k \in Keys |-> IF file[k] = Missing THEN Defaults[k] ELSE file[k]]
           \/ file = Mixed /\ lost' = Keys /\ config' \in Settings
        /\ accel_pending' = config'.accel
        /\ UNCHANGED <<mode_config_dirty, qos, edits, request, save_on_exit, file, save, stale, failed, early,
                       posted, quit, complete, bounds, escaped>>

\* A pool that cannot be parsed makes App::init fail; main() returns 1 and
\* does not save.
LoadRefused == /\ ui = "load" /\ file = Mixed /\ ui' = "refused"
               /\ UNCHANGED <<config, gui, request, save_on_exit, store, life, bounds, escaped>>

\* The process dies, or ends, and is started again: all but the file is new.
\* Bound: changes and dialogs happen before a restart, not after it.
Restart == /\ ui \notin {"load", "refused"} /\ restarts < Restarts /\ restarts' = restarts + 1
           /\ ui' = "load" /\ running' = FALSE
           /\ mode_config_dirty' = FALSE /\ tick' = "sleep" /\ accel_on' = TRUE
           /\ request' = FALSE /\ save_on_exit' = TRUE
           /\ save' = [w \in Writer |-> "idle"] /\ stale' = {} /\ failed' = {} /\ escaped' = FALSE
           /\ early' = FALSE /\ posted' = 0 /\ quit' = FALSE /\ complete' = FALSE
           /\ accel_pending' = TRUE /\ edits' = Edits /\ dialogs' = Dialogs
           /\ UNCHANGED <<config, file, lost>>

(***************************************************************************)
(* save_config, by any of the writers.  Each dprintf writes through; the   *)
(* lines of the pool are one here and two in LanConfig.                    *)
(***************************************************************************)
Busy == {w \in Writer : save[w] \in {"accel", "pool", "close"}}

SaveOpen(w) == /\ save[w] = "open" /\ save' = [save EXCEPT ![w] = "accel"]
               /\ file' = Empty /\ lost' = Keys /\ stale' = (stale \ {w}) \cup Busy
               /\ UNCHANGED <<ui, config, gui, request, save_on_exit, failed, early, life, bounds, escaped>>

\* The file does not open: nothing is written, and the caller only logs it.
SaveFails(w) == /\ save[w] = "open" /\ save' = [save EXCEPT ![w] = "saved"]
                /\ failed' = failed \cup ({w} \ {Control})
                /\ UNCHANGED <<ui, config, gui, request, save_on_exit, file, stale, lost, early, life,
                               bounds, escaped>>

WriteLine(w, key) ==
  IF w \in stale \/ file = Mixed THEN file' = Mixed /\ lost' = Keys
  ELSE file' = [file EXCEPT ![key] = config[key]] /\ lost' = lost \ {key}

SaveAccel(w) == /\ save[w] = "accel" /\ save' = [save EXCEPT ![w] = "pool"]
                /\ WriteLine(w, "accel") /\ early' = (mode_config_dirty \/ tick # "sleep")
                /\ UNCHANGED <<ui, config, gui, request, save_on_exit, stale, failed, life, bounds, escaped>>

SavePool(w) == /\ save[w] = "pool" /\ save' = [save EXCEPT ![w] = "close"]
               /\ WriteLine(w, "pool")
               /\ UNCHANGED <<ui, config, gui, request, save_on_exit, stale, failed, early, life, bounds, escaped>>

SaveClose(w) == /\ save[w] = "close" /\ save' = [save EXCEPT ![w] = "saved"]
                /\ stale' = stale \ {w}
                /\ UNCHANGED <<ui, config, gui, request, save_on_exit, file, failed, lost, early, life,
                               bounds, escaped>>

Save(w) == SaveOpen(w) \/ SaveFails(w) \/ SaveAccel(w) \/ SavePool(w) \/ SaveClose(w)

(***************************************************************************)
(* The services: the QoS tick applies the mode, the control thread a pool. *)
(* A tick takes the flag down, loads the mode and stores it, and a save    *)
(* may fall in between.  Until it is joined, the QoS service may be in a   *)
(* tick that it began before the services were stopped.                    *)
(***************************************************************************)
TakeModeAnytime == /\ tick = "sleep" /\ mode_config_dirty
                   /\ mode_config_dirty' = FALSE /\ tick' = "load"
                   /\ UNCHANGED <<ui, config, accel_pending, accel_on, edits, request, save_on_exit, store,
                                  life, bounds, escaped>>

TakeMode == /\ running \/ ui = "join"
            /\ tick = "sleep" /\ mode_config_dirty
            /\ mode_config_dirty' = FALSE /\ tick' = "load"
            /\ UNCHANGED <<ui, config, accel_pending, accel_on, edits, request, save_on_exit, store,
                           life, bounds, escaped>>

LoadMode == /\ tick = "load" /\ tick' = "store" /\ accel_on' = accel_pending
            /\ UNCHANGED <<ui, config, accel_pending, mode_config_dirty, edits, request, save_on_exit, store,
                           life, bounds, escaped>>

StoreMode == /\ tick = "store" /\ tick' = "sleep" /\ accel_on' = TRUE
             /\ config' = [config EXCEPT !.accel = accel_on] /\ lost' = lost \cup {"accel"}
             /\ UNCHANGED <<ui, accel_pending, mode_config_dirty, edits, request, save_on_exit, file, save,
                            stale, failed, early, life, bounds, escaped>>

QosTick == TakeMode \/ LoadMode \/ StoreMode

ApplyRequest == /\ running /\ request /\ save[Control] = "idle"
                /\ request' = FALSE /\ save' = [save EXCEPT ![Control] = "open"]
                /\ UNCHANGED <<ui, config, gui, save_on_exit, file, stale, failed, lost, early, life, bounds, escaped>>

ControlSaved == /\ save[Control] = "saved" /\ save' = [save EXCEPT ![Control] = "idle"]
                /\ UNCHANGED <<ui, config, gui, request, save_on_exit, file, stale, failed, lost, early, life, bounds, escaped>>

(***************************************************************************)
(* The user, through the GUI thread.                                       *)
(***************************************************************************)
ToggleAccel == /\ ui = "loop" /\ ui' = "toggle" /\ edits < Edits /\ edits' = edits + 1
               /\ accel_pending' = ~accel_pending
               /\ UNCHANGED <<config, mode_config_dirty, qos, request, save_on_exit, store, life, bounds, escaped>>

RaiseDirty == /\ ui = "toggle" /\ ui' = "loop" /\ mode_config_dirty' = TRUE
              /\ UNCHANGED <<config, accel_pending, qos, edits, request, save_on_exit, store, life, bounds, escaped>>

\* The pool is assigned as one here, and string by string in LanConfig.
ApplyPool(p) == /\ ui = "loop" /\ ui' = "apply" /\ edits < Edits /\ edits' = edits + 1
                /\ config' = [config EXCEPT !.pool = p] /\ lost' = lost \cup {"pool"}
                /\ UNCHANGED <<accel_pending, mode_config_dirty, qos, request, save_on_exit, file, save, stale,
                               failed, early, life, bounds, escaped>>

SignalControl == /\ ui = "apply" /\ ui' = "loop" /\ request' = TRUE
                 /\ UNCHANGED <<config, gui, save_on_exit, store, life, bounds, escaped>>

OpenDialog == /\ ui = "loop" /\ dialogs < Dialogs /\ ui' = "dialog" /\ dialogs' = dialogs + 1
              /\ UNCHANGED <<config, gui, request, save_on_exit, store, life, restarts, escaped>>

Cancel == /\ ui = "dialog" /\ ui' = "loop"
          /\ UNCHANGED <<config, gui, request, save_on_exit, store, life, bounds, escaped>>

\* QDialog maps Escape to reject(), whatever buttons are disabled.
Escape == /\ ui = "saving" /\ ui' = "loop" /\ escaped' = TRUE
          /\ UNCHANGED <<config, gui, request, save_on_exit, store, life, bounds>>

\* "Yes, Save Settings": the buttons are disabled and a thread saves.
ClickSave == /\ ui = "dialog" /\ ui' = "saving" /\ save' = [save EXCEPT ![dialogs] = "open"]
             /\ UNCHANGED <<config, gui, request, save_on_exit, file, stale, failed, lost, early, life,
                            bounds, escaped>>

\* The saving thread clears SAVE_ON_EXIT and then posts the shutdown.
SaverClears(w) == /\ save[w] = "saved" /\ save_on_exit' = FALSE
                  /\ save' = [save EXCEPT ![w] = "post"]
                  /\ UNCHANGED <<ui, config, gui, request, file, stale, failed, lost, early, life, bounds, escaped>>

SaverForgetsPost(w) == /\ save[w] = "post" /\ save' = [save EXCEPT ![w] = "done"]
                       /\ UNCHANGED <<ui, config, gui, request, save_on_exit, file, stale, failed, lost, early, life, bounds, escaped>>

SaverPosts(w) == /\ save[w] = "post" /\ save' = [save EXCEPT ![w] = "done"]
                 /\ posted' = posted + 1
                 /\ UNCHANGED <<ui, config, gui, request, save_on_exit, file, stale, failed, lost, early,
                                running, quit, complete, bounds, escaped>>

ClickNoSave == /\ ui = "dialog" /\ save_on_exit' = FALSE /\ ui' = "stop"
               /\ UNCHANGED <<config, gui, request, store, life, bounds, escaped>>

\* The event loop, the dialog's own included, runs a posted shutdown.
RunPosted == /\ ui \in {"loop", "dialog", "saving"} /\ posted > 0
             /\ posted' = posted - 1 /\ ui' = "stop"
             /\ UNCHANGED <<config, gui, request, save_on_exit, store, running, quit, complete, bounds, escaped>>

\* Closing the only window ends the event loop; main() then calls stop().
CloseWindow == /\ ui = "loop" /\ ui' = "stop"
               /\ UNCHANGED <<config, gui, request, save_on_exit, store, life, bounds, escaped>>

(***************************************************************************)
(* App::stop: tell the services, join them, mark the shutdown complete;    *)
(* the notifier thread then posts quit, and main() goes on behind exec().  *)
(***************************************************************************)
StopServices == /\ ui = "stop" /\ running' = FALSE /\ ui' = "join"
                /\ UNCHANGED <<config, gui, request, save_on_exit, store, posted, quit, complete, bounds, escaped>>

MarkCompleteUnjoined == /\ ui = "join"
                        /\ complete' = TRUE /\ ui' = "stopped"
                        /\ UNCHANGED <<config, gui, request, save_on_exit, store, running, posted, quit, bounds, escaped>>

JoinAndMarkComplete == /\ ui = "join" /\ save[Control] = "idle" /\ tick = "sleep"
                       /\ complete' = TRUE /\ ui' = "stopped"
                       /\ UNCHANGED <<config, gui, request, save_on_exit, store, running, posted, quit, bounds, escaped>>

NotifyQuit == /\ complete /\ ~quit /\ quit' = TRUE
              /\ UNCHANGED <<ui, config, gui, request, save_on_exit, store, running, posted, complete, bounds, escaped>>

\* exec() returns, stop() returns at once since begin_stop fails, the
\* notifier is joined, and the file is saved unless the dialog has done so.
Tail == /\ ui = "stopped" /\ quit
        /\ IF save_on_exit THEN ui' = "tail" /\ save' = [save EXCEPT ![Main] = "open"]
           ELSE ui' = "exited" /\ save' = save
        /\ UNCHANGED <<config, gui, request, save_on_exit, file, stale, failed, lost, early, life, bounds, escaped>>

TailSaved == /\ ui = "tail" /\ save[Main] = "saved" /\ ui' = "exited"
             /\ save' = [save EXCEPT ![Main] = "idle"]
             /\ UNCHANGED <<config, gui, request, save_on_exit, file, stale, failed, lost, early, life, bounds, escaped>>

User == \/ ToggleAccel \/ OpenDialog \/ ClickSave \/ Cancel \/ Escape \/ ClickNoSave \/ CloseWindow
        \/ \E p \in Pool : ApplyPool(p)
Saver(w) == ui \notin {"exited", "load", "refused"} /\ (Save(w) \/ SaverClears(w) \/ SaverPosts(w))
Services == ApplyRequest \/ Save(Control) \/ ControlSaved
GuiThread == \/ Load \/ LoadRefused \/ RaiseDirty \/ SignalControl \/ RunPosted \/ StopServices \/ JoinAndMarkComplete
             \/ Tail \/ Save(Main) \/ TailSaved

Next == User \/ Restart \/ (\E w \in Savers : Saver(w)) \/ Services \/ QosTick \/ GuiThread \/ NotifyQuit

Spec == Init /\ [][Next]_vars

\* Every thread but the user keeps running: all of them share cores 0 and 1
\* at normal priority.
FairSpec == /\ Spec /\ WF_vars(GuiThread) /\ WF_vars(Services) /\ WF_vars(QosTick)
            /\ WF_vars(NotifyQuit) /\ \A w \in Savers : WF_vars(Saver(w))

-----------------------------------------------------------------------------

\* The program does not end, and main() does not start its own save, while
\* another thread is saving: the services are joined first, and the dialog
\* quits "only after save + SAVE_ON_EXIT clear".  The exception is a dialog
\* that was left with Escape while its thread was saving.
SavesFinishBeforeExit ==
  ui \in {"tail", "exited"} => Busy \subseteq {Main} \cup (IF escaped THEN Savers ELSE {})

\* A file that main() saved at the end holds the settings in effect: no
\* service changes one between the lines, and no other save is mixed in.
TailSaveExact ==
  ui = "exited" /\ save_on_exit /\ Main \notin failed /\ ~escaped => file = config

\* A program that ends after a save, main()'s own or the dialog's, leaves in
\* the file all that the user has chosen, although the mode goes through the
\* QoS service and the control thread saves too.  Exceptions: a mode whose
\* line was written before a tick had applied it, a dialog's save that
\* overlapped the control thread's, and a dialog left while it saved.
ChoicesSaved ==
  /\ ui = "exited" /\ ~escaped
  /\ (save_on_exit /\ Main \notin failed) \/ (\E w \in Savers \ failed : save[w] = "done")
  => IF file = Mixed THEN ~save_on_exit
     ELSE file.pool = config.pool /\ (early \/ file.accel = accel_pending)

\* After a crash at any point, a setting is what it was unless it was changed
\* after its line was last written, or the crash fell between the truncation
\* of the file and the writing of that line: one cut save does not reach
\* beyond the lines it lacks, and load_config keeps the others.
RestartKeepsSaved == [][Load => \A k \in Keys \ lost : config'[k] = config[k]]_vars

\* A confirmed shutdown completes: the save, the posted callback, the joins,
\* the completion event and quit() never wait for each other for ever, even
\* if the dialog was left meanwhile; only a crash gets in its way.
ShutdownCompletes == ui \in {"saving", "stop"} ~> ui \in {"exited", "load"}
=============================================================================
