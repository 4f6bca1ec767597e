--------------------------- MODULE ShutdownProofs ---------------------------
(***************************************************************************)
(* For every set of pools, every number of dialogs, changes and restarts:  *)
(* no save is under way when the program ends, the file it leaves holds the *)
(* settings and choices it should, and a restart keeps what was saved.      *)
(*                                                                          *)
(* The properties speak of the end of a run.  The inductive invariant says  *)
(* how the run gets there: which threads may save at each position of the   *)
(* GUI thread (Threads, DialogInv), what the file holds while main() writes *)
(* it (TailInv) and while any of the writers does (ChoicesInv), and what    *)
(* load_config would make of it at any moment (KeptInv).                    *)
(***************************************************************************)
EXTENDS Shutdown, TLAPS

Writing == {"accel", "pool", "close"}
WritePC == {"idle", "open", "saved"} \cup Writing
UI == {"load", "refused", "loop", "toggle", "apply", "dialog", "saving", "stop", "join", "stopped",
       "tail", "exited"}

TypeOK == /\ ui \in UI /\ config \in Settings
          /\ accel_pending \in BOOLEAN /\ mode_config_dirty \in BOOLEAN
          /\ tick \in {"sleep", "load", "store"} /\ accel_on \in BOOLEAN
          /\ save_on_exit \in BOOLEAN /\ escaped \in BOOLEAN
          /\ running \in BOOLEAN /\ early \in BOOLEAN
          /\ file \in Lines \cup {Mixed} /\ lost \subseteq Keys
          /\ save \in [Writer -> WritePC \cup {"post", "done"}]
          /\ posted \in Nat /\ dialogs \in 0 .. Dialogs
          /\ ui \in {"dialog", "saving"} => dialogs \in Savers

\* The services are stopped, and then joined, before main() goes on; main()
\* saves in its tail only.  A thread of the dialog clears SAVE_ON_EXIT before
\* it is done.
Threads == /\ ui \in {"join", "stopped", "tail", "exited", "load", "refused"} => ~running
           /\ ui \in {"stopped", "tail", "exited", "load", "refused"}
                => save[Control] = "idle" /\ tick = "sleep"
           /\ ui # "tail" => save[Main] = "idle"
           /\ save[Control] \in WritePC /\ save[Main] \in WritePC
           /\ \A w \in Savers : save[w] \in {"post", "done"} => ~save_on_exit

\* Unless it is left with Escape, the dialog stays open while its thread
\* saves, and the program goes on to stop only when that has posted.
DialogInv ==
  ~escaped =>
    /\ ui \in {"load", "refused", "loop", "toggle", "apply", "dialog"} => \A w \in Savers : save[w] = "idle"
    /\ ui = "saving" => /\ \A w \in Savers \ {dialogs} : save[w] = "idle"
                        /\ posted # 0 => posted = 1 /\ save[dialogs] = "done"
    /\ ui \in {"stop", "join", "stopped", "tail", "exited"}
         => \A w \in Savers : save[w] \in {"idle", "done"}
    /\ ui # "saving" => posted = 0

\* A mode the user chose is in effect unless its flag has yet to be raised or
\* taken, or the tick that took it is not done.
ModeInv == ui \notin {"load", "refused", "toggle"} /\ ~mode_config_dirty =>
             /\ tick = "sleep" => config.accel = accel_pending
             /\ tick = "store" => accel_on = accel_pending

\* A line that is not lost is the setting in effect, or gives it by default.
KeptInv == /\ file = Mixed => lost = Keys
           /\ file # Mixed => \A k \in Keys \ lost : \/ file[k] = config[k]
                                                     \/ file[k] = Missing /\ config[k] = Defaults[k]

\* The file while main() saves it.
TailInv ==
  ~escaped =>
    /\ ui = "tail" => /\ save[Main] \in Writing => Main \notin stale
                      /\ save[Main] = "accel" => file = Empty
                      /\ save[Main] = "pool" => file # Mixed /\ file.accel = config.accel
                      /\ save[Main] = "close" => file = config
                      /\ save[Main] = "saved" => Main \in failed \/ file = config
    /\ ui = "exited" /\ save_on_exit => Main \in failed \/ file = config

\* A writer that has not been overtaken by another one.
Fresh(w) == save[w] \in Writing /\ w \notin stale

\* The dialog's save, or main()'s, has truncated the file.
Begun == \/ \E w \in Savers \ failed : save[w] \notin {"idle", "open"}
         \/ ui = "tail" /\ save[Main] \notin {"idle", "open"} /\ Main \notin failed
         \/ ui = "exited" /\ save_on_exit /\ Main \notin failed

\* From then on a line holds the user's choice or has still to be written.
ChoicesInv ==
  ~escaped /\ Begun /\ file # Mixed =>
    /\ (\E w \in Writer : Fresh(w) /\ save[w] \in {"accel", "pool"}) \/ file.pool = config.pool
    /\ (\E w \in Writer : Fresh(w) /\ save[w] = "accel") \/ early \/ file.accel = accel_pending

IInv == TypeOK /\ Threads /\ DialogInv /\ ModeInv /\ KeptInv /\ TailInv /\ ChoicesInv

-----------------------------------------------------------------------------

\* The writers are different threads.
LEMMA WritersDistinct ==
  /\ Control \notin Savers /\ Main \notin Savers /\ Main # Control
  /\ Control \in Writer /\ Main \in Writer /\ Savers \subseteq Writer
BY ShutdownConstants DEF Control, Main, Savers, Writer

LEMMA InitIInv == Init => IInv
<1> SUFFICES ASSUME Init PROVE IInv
  OBVIOUS
<1>1. Defaults \in Settings
  BY ShutdownConstants DEF Defaults, Settings
<1>2. TypeOK
  <2>1. save \in [Writer -> WritePC \cup {"post", "done"}] /\ ui \in UI /\ ui = "load"
    BY DEF Init, UI, WritePC
  <2>2. dialogs \in 0 .. Dialogs /\ posted \in Nat
    BY ShutdownConstants DEF Init
  <2>3. config \in Settings /\ file \in Lines \cup {Mixed} /\ lost \subseteq Keys
    BY <1>1 DEF Init
  <2> QED
    BY <2>1, <2>2, <2>3, Zenon DEF Init, TypeOK
<1>3. \A w \in Writer : save[w] = "idle"
  BY DEF Init
<1>4. Threads /\ DialogInv
  BY <1>3, WritersDistinct DEF Init, Threads, DialogInv, WritePC
<1>5. ModeInv /\ KeptInv /\ TailInv
  BY DEF Init, ModeInv, KeptInv, TailInv
<1>6. ChoicesInv
  BY <1>3, WritersDistinct DEF Init, ChoicesInv, Begun
<1> QED
  BY <1>2, <1>4, <1>5, <1>6 DEF IInv

\* What a step of save_config changes at most.
LEMMA SaveFrame ==
  ASSUME TypeOK, NEW w \in Writer, Save(w)
  PROVE  /\ save[w] \in {"open"} \cup Writing
         /\ \E x \in Writing \cup {"saved"} : save' = [save EXCEPT ![w] = x]
         /\ file' \in Lines \cup {Mixed} /\ lost' \subseteq Keys /\ early' \in BOOLEAN
         /\ UNCHANGED <<ui, config, accel_pending, mode_config_dirty, tick, accel_on, save_on_exit,
                        running, posted, dialogs, escaped>>
<1> USE DEF gui, qos, life, bounds, Writing
<1>1. CASE SaveOpen(w)
  BY <1>1 DEF SaveOpen, TypeOK, Lines, Empty
<1>2. CASE SaveFails(w)
  BY <1>2 DEF SaveFails, TypeOK
<1>3. ASSUME NEW k \in Keys, WriteLine(w, k)
        PROVE file' \in Lines \cup {Mixed} /\ lost' \subseteq Keys
  <2>1. CASE w \in stale \/ file = Mixed
    BY <1>3, <2>1 DEF WriteLine
  <2>2. CASE ~(w \in stale \/ file = Mixed)
    <3>1. file \in Lines /\ config \in Settings /\ lost \subseteq Keys
      BY <2>2 DEF TypeOK
    <3>2. file' = [file EXCEPT ![k] = config[k]] /\ lost' = lost \ {k}
      BY <1>3, <2>2 DEF WriteLine
    <3>3. file' \in Lines
      BY <3>1, <3>2 DEF Lines, Keys, Settings
    <3> QED
      BY <3>1, <3>2, <3>3
  <2> QED
    BY <2>1, <2>2
<1>4. CASE SaveAccel(w)
  BY <1>3, <1>4 DEF SaveAccel, TypeOK, Keys
<1>5. CASE SavePool(w)
  BY <1>3, <1>5 DEF SavePool, TypeOK, Keys
<1>6. CASE SaveClose(w)
  BY <1>6 DEF SaveClose, TypeOK
<1> QED
  BY <1>1, <1>2, <1>4, <1>5, <1>6 DEF Save

\* Who may be saving, and what that leaves of the dialog's invariant.
LEMMA SaveKeepsThreads ==
  ASSUME IInv, NEW w \in Writer, Save(w)
  PROVE  /\ TypeOK' /\ Threads' /\ DialogInv' /\ ModeInv'
         /\ ~escaped /\ ui \in {"tail", "exited"} => w = Main
         /\ w = Main => ui = "tail"
<1>0. TypeOK /\ Threads /\ DialogInv /\ ModeInv
        /\ save \in [Writer -> WritePC \cup {"post", "done"}]
  BY DEF IInv, TypeOK
<1>1. /\ save[w] \in {"open"} \cup Writing /\ file' \in Lines \cup {Mixed}
      /\ lost' \subseteq Keys /\ early' \in BOOLEAN
      /\ UNCHANGED <<ui, config, accel_pending, mode_config_dirty, tick, accel_on, save_on_exit,
                     running, posted, dialogs, escaped>>
  BY <1>0, SaveFrame
<1>2. PICK x \in Writing \cup {"saved"} : save' = [save EXCEPT ![w] = x]
  BY <1>0, SaveFrame
<1>3. TypeOK'
  BY <1>0, <1>1, <1>2 DEF TypeOK, WritePC
<1>4. w = Main => ui = "tail"
  BY <1>0, <1>1 DEF Threads, Writing
<1>5. w = Control => ui \notin {"stopped", "tail", "exited", "load", "refused"}
  BY <1>0, <1>1 DEF Threads, Writing
<1>6. w \in Savers /\ ~escaped => ui = "saving" /\ w = dialogs /\ posted = 0
  BY <1>0, <1>1 DEF DialogInv, Writing, TypeOK, UI
<1>7. Threads'
  BY <1>0, <1>1, <1>2, <1>4, <1>5, WritersDistinct DEF Threads, WritePC, Writing
<1>8. DialogInv'
  BY <1>0, <1>1, <1>2, <1>6, WritersDistinct DEF DialogInv, Writing
<1>9. ModeInv'
  BY <1>0, <1>1 DEF ModeInv
<1> QED
  BY <1>3, <1>4, <1>5, <1>6, <1>7, <1>8, <1>9 DEF Writer

LEMMA SaveKeepsKept == ASSUME IInv, NEW w \in Writer, Save(w) PROVE KeptInv'
<1>0. TypeOK /\ KeptInv
  BY DEF IInv
<1>1. CASE SaveOpen(w)
  BY <1>1, ShutdownConstants DEF SaveOpen, KeptInv, Empty, Lines
<1>2. CASE SaveFails(w)
  BY <1>0, <1>2 DEF SaveFails, KeptInv
<1>3. ASSUME NEW k \in Keys, WriteLine(w, k), config' = config PROVE KeptInv'
  <2>1. CASE w \in stale \/ file = Mixed
    BY <1>3, <2>1 DEF WriteLine, KeptInv
  <2>2. CASE ~(w \in stale \/ file = Mixed)
    <3>1. /\ file \in Lines /\ file' = [file EXCEPT ![k] = config[k]] /\ lost' = lost \ {k}
      BY <1>0, <1>3, <2>2 DEF WriteLine, TypeOK
    <3>2. file'[k] = config[k] /\ \A j \in Keys \ {k} : file'[j] = file[j]
      BY <3>1 DEF Lines, Keys
    <3>3. file' # Mixed
      BY <1>0, <3>1, ShutdownConstants DEF Lines, Keys, TypeOK, Settings
    <3> QED
      BY <1>0, <1>3, <2>2, <3>1, <3>2, <3>3 DEF KeptInv
  <2> QED
    BY <2>1, <2>2
<1>4. CASE SaveAccel(w)
  BY <1>3, <1>4 DEF SaveAccel, Keys
<1>5. CASE SavePool(w)
  BY <1>3, <1>5 DEF SavePool, Keys
<1>6. CASE SaveClose(w)
  BY <1>0, <1>6 DEF SaveClose, KeptInv
<1> QED
  BY <1>1, <1>2, <1>4, <1>5, <1>6 DEF Save

\* Nobody but main() writes in its tail.
LEMMA SaveKeepsTail == ASSUME IInv, NEW w \in Writer, Save(w) PROVE TailInv'
<1>0. /\ TypeOK /\ TailInv /\ Threads /\ save \in [Writer -> WritePC \cup {"post", "done"}]
      /\ ui' = ui /\ escaped' = escaped /\ save_on_exit' = save_on_exit /\ config' = config
      /\ config \in Settings
      /\ ~escaped /\ ui \in {"tail", "exited"} => w = Main
      /\ w = Main => ui = "tail"
  BY SaveKeepsThreads, SaveFrame DEF IInv, TypeOK
<1> SUFFICES ASSUME ~escaped, w = Main, ui = "tail" PROVE TailInv'
  BY <1>0 DEF TailInv
<1> USE DEF Writing
<1>1. CASE SaveOpen(w)
  BY <1>0, <1>1 DEF SaveOpen, TailInv, Busy
<1>2. CASE SaveFails(w)
  BY <1>0, <1>2, WritersDistinct DEF SaveFails, TailInv
<1>3. CASE SaveAccel(w)
  <2>1. Main \notin stale /\ file = Empty /\ Empty # Mixed
    BY <1>0, <1>3, ShutdownConstants DEF SaveAccel, TailInv, Empty, Lines
  <2>2. file' = [accel |-> config.accel, pool |-> Missing] /\ file' \in Lines
    BY <1>0, <1>3, <2>1 DEF SaveAccel, WriteLine, Empty, Lines, Settings
  <2>3. file' # Mixed /\ file'.accel = config.accel
    BY <2>2, ShutdownConstants
  <2> QED
    BY <1>0, <1>3, <2>1, <2>3 DEF SaveAccel, TailInv
<1>4. CASE SavePool(w)
  <2>1. Main \notin stale /\ file \in Lines /\ file # Mixed /\ file.accel = config.accel
    BY <1>0, <1>4 DEF SavePool, TailInv, TypeOK
  <2>2. file' = config
    BY <1>0, <1>4, <2>1 DEF SavePool, WriteLine, Lines, Settings
  <2> QED
    BY <1>0, <1>4, <2>1, <2>2 DEF SavePool, TailInv
<1>5. CASE SaveClose(w)
  BY <1>0, <1>5 DEF SaveClose, TailInv
<1> QED
  BY <1>1, <1>2, <1>3, <1>4, <1>5 DEF Save

LEMMA SaveKeepsChoices == ASSUME IInv, NEW w \in Writer, Save(w) PROVE ChoicesInv'
<1>0. /\ TypeOK /\ ChoicesInv /\ ModeInv /\ Threads
      /\ save \in [Writer -> WritePC \cup {"post", "done"}] /\ config \in Settings
      /\ ui' = ui /\ escaped' = escaped /\ save_on_exit' = save_on_exit /\ config' = config
      /\ accel_pending' = accel_pending /\ DialogInv
      /\ w = Main => ui = "tail"
  BY SaveKeepsThreads, SaveFrame DEF IInv, TypeOK
<1> USE DEF Writing, Fresh
<1>1. CASE SaveOpen(w)
  <2>1. Fresh(w)' /\ save'[w] = "accel"
    BY <1>0, <1>1 DEF SaveOpen, Busy
  <2> QED
    BY <2>1 DEF ChoicesInv
<1>2. CASE SaveFails(w)
  <2>1. Begun' => Begun
    BY <1>0, <1>2, WritersDistinct DEF SaveFails, Begun
  <2> QED
    BY <1>0, <1>2, <2>1 DEF SaveFails, ChoicesInv
<1>3. CASE SaveAccel(w)
  <2> SUFFICES ASSUME ~escaped, Begun', file' # Mixed PROVE ChoicesInv'
    BY <1>0 DEF ChoicesInv
  <2>1. /\ w \notin stale /\ file \in Lines /\ file' = [file EXCEPT !["accel"] = config["accel"]]
        /\ early' = (mode_config_dirty \/ tick # "sleep") /\ save' = [save EXCEPT ![w] = "pool"] /\ stale' = stale
    BY <1>0, <1>3 DEF SaveAccel, WriteLine, TypeOK
  <2>2. Fresh(w)' /\ save'[w] = "pool"
    BY <1>0, <2>1
  <2>3. file'.accel = config.accel
    BY <2>1 DEF Lines
  <2>4. ui \notin {"load", "refused", "toggle"}
    <3>1. failed' = failed
      BY <1>3 DEF SaveAccel
    <3>2. Begun' => \/ \E v \in Savers : save[v] # "idle"
                    \/ ui \in {"tail", "exited"}
      BY <1>0, <1>3, <2>1, <3>1, WritersDistinct DEF SaveAccel, Begun
    <3> QED
      BY <1>0, <3>2, Zenon DEF DialogInv
  <2> QED
    BY <1>0, <2>1, <2>2, <2>3, <2>4, Zenon DEF ChoicesInv, ModeInv, TypeOK
<1>4. CASE SavePool(w)
  <2> SUFFICES ASSUME ~escaped, Begun', file' # Mixed PROVE ChoicesInv'
    BY <1>0 DEF ChoicesInv
  <2>1. /\ w \notin stale /\ file \in Lines /\ file' = [file EXCEPT !["pool"] = config["pool"]]
        /\ early' = early /\ save' = [save EXCEPT ![w] = "close"] /\ stale' = stale
        /\ save[w] = "pool" /\ file # Mixed /\ failed' = failed
    BY <1>0, <1>4 DEF SavePool, WriteLine, TypeOK
  <2>2. Begun
    BY <1>0, <2>1 DEF Begun
  <2>3. file'.pool = config.pool /\ file'.accel = file.accel
    BY <2>1 DEF Lines
  <2>4. \A v \in Writer : Fresh(v) /\ save[v] = "accel" => Fresh(v)' /\ save'[v] = "accel"
    BY <1>0, <2>1
  <2> QED
    BY <1>0, <2>1, <2>2, <2>3, <2>4 DEF ChoicesInv
<1>5. CASE SaveClose(w)
  <2>1. Begun' => Begun
    BY <1>0, <1>5 DEF SaveClose, Begun
  <2>2. \A v \in Writer : Fresh(v) /\ save[v] \in {"accel", "pool"} => Fresh(v)'
          /\ save'[v] = save[v]
    BY <1>0, <1>5 DEF SaveClose
  <2> QED
    BY <1>0, <1>5, <2>1, <2>2 DEF SaveClose, ChoicesInv
<1> QED
  BY <1>1, <1>2, <1>3, <1>4, <1>5 DEF Save

LEMMA SaveStep == ASSUME IInv, NEW w \in Writer, Save(w) PROVE IInv'
BY SaveKeepsThreads, SaveKeepsKept, SaveKeepsTail, SaveKeepsChoices DEF IInv

\* A step that leaves the file and the settings alone, and at which no writer
\* leaves or enters the middle of its save.
LEMMA FileKeeps ==
  ASSUME IInv,
         UNCHANGED <<config, accel_pending, mode_config_dirty, tick, accel_on, file, stale, failed, lost, early>>,
         escaped => escaped',
         ui' \notin {"load", "refused", "toggle"} => ui \notin {"load", "refused", "toggle"},
         \A w \in Writer : save[w] \in Writing => save'[w] = save[w],
         ui' = "tail" => save'[Main] = "open" \/ (ui = "tail" /\ save'[Main] = save[Main]),
         ui' = "exited" /\ save_on_exit' => \/ ui = "exited" /\ save_on_exit
                                            \/ ui = "tail" /\ save[Main] = "saved",
         ~escaped' /\ Begun' => Begun
  PROVE  ModeInv' /\ KeptInv' /\ TailInv' /\ ChoicesInv'
<1>1. ModeInv'
  BY DEF IInv, ModeInv
<1>2. KeptInv'
  BY DEF IInv, KeptInv
<1>3. TailInv'
  BY WritersDistinct DEF IInv, TailInv, Writing
<1>4. ChoicesInv'
  <2>1. \A w \in Writer : Fresh(w) => Fresh(w)' /\ save'[w] = save[w]
    BY DEF Fresh
  <2> QED
    BY <2>1 DEF IInv, ChoicesInv
<1> QED
  BY <1>1, <1>2, <1>3, <1>4

LEMMA GuiStep ==
  ASSUME IInv,
         \/ OpenDialog \/ Cancel \/ Escape \/ ClickNoSave \/ CloseWindow \/ RunPosted
         \/ StopServices \/ JoinAndMarkComplete \/ NotifyQuit \/ LoadRefused \/ SignalControl
         \/ UNCHANGED vars
  PROVE  IInv'
<1>0. TypeOK /\ Threads /\ DialogInv /\ save \in [Writer -> WritePC \cup {"post", "done"}]
  BY DEF IInv, TypeOK
<1> USE DEF gui, qos, bounds, store, life, vars
<1>1. /\ UNCHANGED <<config, accel_pending, mode_config_dirty, tick, accel_on, file, stale, failed, lost,
           early, save>>
      /\ escaped => escaped'
      /\ save_on_exit' => save_on_exit
      /\ ui' # ui => ui' \notin {"tail", "exited", "load"}
      /\ ui' \notin {"load", "refused", "toggle"} => ui \notin {"load", "refused", "toggle"}
  BY DEF OpenDialog, Cancel, Escape, ClickNoSave, CloseWindow, RunPosted, StopServices,
         JoinAndMarkComplete, NotifyQuit, LoadRefused, SignalControl
<1>2. Begun' => Begun
  BY <1>1 DEF Begun
<1>3. ModeInv' /\ KeptInv' /\ TailInv' /\ ChoicesInv'
  BY <1>1, <1>2, FileKeeps
<1>4. TypeOK'
  <2>1. /\ ui \in UI /\ posted \in Nat /\ dialogs \in 0 .. Dialogs
        /\ ui \in {"dialog", "saving"} => dialogs \in Savers
    BY <1>0 DEF TypeOK
  <2>2. /\ posted' \in {posted, posted - 1} /\ (posted' # posted => posted > 0)
        /\ dialogs' \in {dialogs, dialogs + 1}
        /\ dialogs' # dialogs => dialogs < Dialogs
        /\ \/ ui' = ui /\ dialogs' = dialogs
           \/ ui' = "dialog" /\ dialogs' = dialogs + 1
           \/ ui' \in {"loop", "stop", "join", "stopped", "refused"}
    BY DEF OpenDialog, Cancel, Escape, ClickNoSave, CloseWindow, RunPosted, StopServices,
           JoinAndMarkComplete, NotifyQuit, LoadRefused, SignalControl
  <2>3. /\ ui' \in UI /\ posted' \in Nat /\ dialogs' \in 0 .. Dialogs
        /\ ui' \in {"dialog", "saving"} => dialogs' \in Savers
    BY <2>1, <2>2, ShutdownConstants DEF UI, Savers
  <2>4. save_on_exit' \in BOOLEAN /\ escaped' \in BOOLEAN /\ running' \in BOOLEAN
    BY <1>0, Zenon
       DEF TypeOK, OpenDialog, Cancel, Escape, ClickNoSave, CloseWindow, RunPosted,
           StopServices, JoinAndMarkComplete, NotifyQuit, LoadRefused, SignalControl
  <2> QED
    BY <1>0, <1>1, <2>3, <2>4 DEF TypeOK
<1>5. Threads'
  BY <1>0, <1>1
     DEF Threads, OpenDialog, Cancel, Escape, ClickNoSave, CloseWindow, RunPosted,
         StopServices, JoinAndMarkComplete, NotifyQuit, LoadRefused, SignalControl
<1>6. DialogInv'
  BY <1>0, <1>1
     DEF DialogInv, TypeOK, OpenDialog, Cancel, Escape, ClickNoSave, CloseWindow, RunPosted,
         StopServices, JoinAndMarkComplete, NotifyQuit, LoadRefused, SignalControl
<1> QED
  BY <1>3, <1>4, <1>5, <1>6 DEF IInv

\* The control thread starts or ends its save, which changes its position only.
LEMMA ControlStep == ASSUME IInv, ApplyRequest \/ ControlSaved PROVE IInv'
<1>0. TypeOK /\ Threads /\ DialogInv /\ save \in [Writer -> WritePC \cup {"post", "done"}]
  BY DEF IInv, TypeOK
<1> USE DEF gui, qos, bounds, life
<1>1. PICK x \in {"open", "idle"} : save' = [save EXCEPT ![Control] = x]
  BY DEF ApplyRequest, ControlSaved
<1>2. /\ UNCHANGED <<ui, config, accel_pending, mode_config_dirty, tick, accel_on, save_on_exit, file, stale,
           failed, lost,
                     early, running, posted, dialogs, escaped>>
      /\ save[Control] \in {"idle", "saved"} /\ (running \/ save[Control] = "saved")
  BY DEF ApplyRequest, ControlSaved
<1>3. \A w \in Writer \ {Control} : save'[w] = save[w]
  BY <1>0, <1>1
<1>4. ModeInv' /\ KeptInv' /\ TailInv' /\ ChoicesInv'
  <2>1. Begun' => Begun
    BY <1>2, <1>3, WritersDistinct DEF Begun
  <2> QED
    BY <1>2, <1>3, <2>1, WritersDistinct, FileKeeps DEF Writing
<1>5. TypeOK'
  <2>1. save' \in [Writer -> WritePC \cup {"post", "done"}]
    BY <1>0, <1>1, Zenon DEF WritePC
  <2> QED
    BY <1>0, <1>2, <2>1, Zenon DEF TypeOK
<1>6. Threads'
  BY <1>0, <1>1, <1>2, <1>3, WritersDistinct DEF Threads, WritePC
<1>7. DialogInv'
  BY <1>0, <1>2, <1>3, WritersDistinct DEF DialogInv, TypeOK
<1> QED
  BY <1>4, <1>5, <1>6, <1>7 DEF IInv

\* The dialog starts its thread; the thread clears SAVE_ON_EXIT and posts.
LEMMA SaverStep == ASSUME IInv, NEW w \in Savers, SaverClears(w) \/ SaverPosts(w) PROVE IInv'
<1>0. TypeOK /\ Threads /\ DialogInv /\ save \in [Writer -> WritePC \cup {"post", "done"}]
  BY DEF IInv, TypeOK
<1> USE DEF gui, qos, bounds, life
<1>1. PICK x \in {"post", "done"} : save' = [save EXCEPT ![w] = x]
        /\ (x = "post" => posted' = posted)
                                    /\ (x = "done" => posted' = posted + 1)
  BY DEF SaverClears, SaverPosts
<1>2. /\ UNCHANGED <<ui, config, accel_pending, mode_config_dirty, tick, accel_on, file, stale, failed, lost,
                     early, running, dialogs, escaped>>
      /\ save[w] \in {"saved", "post"} /\ (save_on_exit' => save_on_exit)
  BY DEF SaverClears, SaverPosts
<1>3. \A v \in Writer \ {w} : save'[v] = save[v]
  BY <1>0, <1>1
<1>4. save'[Main] = save[Main] /\ save'[Control] = save[Control]
  BY <1>3, WritersDistinct
<1>5. ModeInv' /\ KeptInv' /\ TailInv' /\ ChoicesInv'
  <2>1. Begun' => Begun
    BY <1>2, <1>3, <1>4, WritersDistinct DEF Begun
  <2> QED
    BY <1>2, <1>3, <1>4, <2>1, FileKeeps DEF Writing
<1>6. TypeOK'
  <2>1. save_on_exit' \in BOOLEAN
    BY <1>0, Zenon DEF TypeOK, SaverClears, SaverPosts
  <2>2. save' \in [Writer -> WritePC \cup {"post", "done"}]
    BY <1>0, <1>1, Zenon
  <2>3. posted \in Nat
    BY <1>0 DEF TypeOK
  <2>4. posted' \in Nat
    BY <1>1, <2>3
  <2> QED
    BY <1>0, <1>2, <2>1, <2>2, <2>4 DEF TypeOK
<1>7. Threads'
  <2>1. ~save_on_exit'
    BY <1>0, Zenon DEF SaverClears, SaverPosts, Threads
  <2> QED
    BY <1>0, <1>2, <1>4, <2>1 DEF Threads
<1>8. DialogInv'
  <2>1. ~escaped => ui = "saving" /\ w = dialogs /\ posted = 0
    BY <1>0, <1>2 DEF DialogInv, TypeOK, UI
  <2>2. save'[w] = x
    BY <1>0, <1>1, WritersDistinct
  <2> QED
    BY <1>0, <1>1, <1>2, <1>3, <2>1, <2>2, WritersDistinct DEF DialogInv, TypeOK
<1> QED
  BY <1>5, <1>6, <1>7, <1>8 DEF IInv

LEMMA ClickSaveStep == ASSUME IInv, ClickSave PROVE IInv'
<1>0. TypeOK /\ Threads /\ DialogInv /\ save \in [Writer -> WritePC \cup {"post", "done"}]
  BY DEF IInv, TypeOK
<1> USE DEF gui, qos, bounds, life
<1>1. /\ ui = "dialog" /\ ui' = "saving" /\ save' = [save EXCEPT ![dialogs] = "open"]
      /\ UNCHANGED <<config, accel_pending, mode_config_dirty, tick, accel_on, file, stale, failed, lost,
           save_on_exit,
                     early, running, dialogs, escaped, posted>>
      /\ dialogs \in Savers /\ (~escaped => \A w \in Savers : save[w] = "idle")
  BY <1>0 DEF ClickSave, TypeOK, DialogInv
<1>2. /\ \A v \in Writer \ {dialogs} : save'[v] = save[v]
      /\ save'[dialogs] = "open"
      /\ save'[Main] = save[Main] /\ save'[Control] = save[Control]
  BY <1>0, <1>1, WritersDistinct
<1>3. TypeOK' /\ Threads' /\ DialogInv'
  BY <1>0, <1>1, <1>2, WritersDistinct DEF TypeOK, Threads, DialogInv, UI, WritePC
<1>4. ModeInv' /\ KeptInv'
  BY <1>1 DEF IInv, ModeInv, KeptInv
<1>5. TailInv'
  BY <1>1 DEF TailInv
<1>6. ~escaped' => ~Begun'
  BY <1>1, <1>2, WritersDistinct DEF Begun
<1>7. ChoicesInv'
  BY <1>6 DEF ChoicesInv
<1> QED
  BY <1>3, <1>4, <1>5, <1>7 DEF IInv

\* main() starts or ends its save, or finds SAVE_ON_EXIT cleared.
LEMMA MainStep == ASSUME IInv, Tail \/ TailSaved PROVE IInv'
<1>0. TypeOK /\ Threads /\ DialogInv /\ save \in [Writer -> WritePC \cup {"post", "done"}]
  BY DEF IInv, TypeOK
<1> USE DEF gui, qos, bounds, life
<1>1. /\ UNCHANGED <<config, accel_pending, mode_config_dirty, tick, accel_on, file, stale, failed, lost,
           save_on_exit,
                     early, running, dialogs, escaped, posted>>
      /\ \/ ui = "stopped" /\ ui' = "tail" /\ save' = [save EXCEPT ![Main] = "open"]
         \/ ui = "stopped" /\ ui' = "exited" /\ save' = save /\ ~save_on_exit
         \/ ui = "tail" /\ ui' = "exited" /\ save' = [save EXCEPT ![Main] = "idle"]
              /\ save[Main] = "saved"
  BY DEF Tail, TailSaved
<1>2. /\ \A v \in Writer \ {Main} : save'[v] = save[v]
      /\ save[Main] \notin Writing /\ save'[Main] = (IF ui' = "tail" THEN "open" ELSE "idle")
  BY <1>0, <1>1, WritersDistinct DEF Threads, Writing
<1>3. ModeInv' /\ KeptInv' /\ TailInv' /\ ChoicesInv'
  <2>1. Begun' => Begun
    BY <1>1, <1>2, WritersDistinct DEF Begun
  <2> QED
    BY <1>1, <1>2, <2>1, FileKeeps DEF Writing
<1>4. TypeOK'
  BY <1>0, <1>1 DEF TypeOK, UI, WritePC
<1>5. Threads' /\ DialogInv'
  BY <1>0, <1>1, <1>2, WritersDistinct DEF Threads, DialogInv, WritePC
<1> QED
  BY <1>3, <1>4, <1>5 DEF IInv

\* What no change of a setting touches.
LEMMA SettingFrame ==
  ASSUME QosTick \/ ToggleAccel \/ RaiseDirty \/ \E p \in Pool : ApplyPool(p)
  PROVE  /\ UNCHANGED <<save, file, stale, failed, save_on_exit, early, running, dialogs,
                        escaped, posted>>
         /\ lost' \in {lost, lost \cup {"accel"}, lost \cup {"pool"}}
BY DEF QosTick, TakeMode, LoadMode, StoreMode, ToggleAccel, RaiseDirty, ApplyPool, gui, qos, bounds,
       store, life

\* A step of the tick.
LEMMA TickStep == ASSUME IInv, QosTick PROVE IInv'
<1>0. /\ TypeOK /\ Threads /\ DialogInv /\ save \in [Writer -> WritePC \cup {"post", "done"}]
      /\ ModeInv /\ KeptInv /\ TailInv /\ ChoicesInv /\ config \in Settings
      /\ accel_pending \in BOOLEAN /\ accel_on \in BOOLEAN
  BY DEF IInv, TypeOK
<1> USE DEF qos, bounds, store, life
<1>1. /\ UNCHANGED <<save, file, stale, failed, save_on_exit, early, running, dialogs,
                     escaped, posted>>
      /\ lost' \in {lost, lost \cup {"accel"}, lost \cup {"pool"}}
  BY SettingFrame
<1>2. ui' = ui /\ accel_pending' = accel_pending
  BY DEF QosTick, TakeMode, LoadMode, StoreMode
<1>3. ui \notin {"stopped", "tail", "exited", "load", "refused"}
  BY <1>0 DEF QosTick, TakeMode, LoadMode, StoreMode, Threads
<1>4. \/ config' = config /\ lost' = lost
      \/ config' = [config EXCEPT !.accel = accel_on] /\ lost' = lost \cup {"accel"}
  BY DEF QosTick, TakeMode, LoadMode, StoreMode
<1>5. config' \in Settings /\ config'.pool = config.pool
  BY <1>0, <1>4 DEF Settings
<1>6. TypeOK'
  <2>1. tick' \in {"sleep", "load", "store"} /\ accel_on' \in BOOLEAN /\ mode_config_dirty' \in BOOLEAN
    BY <1>0, Zenon DEF QosTick, TakeMode, LoadMode, StoreMode, TypeOK
  <2>2. lost' \subseteq Keys
    BY <1>0, <1>1 DEF TypeOK, Keys
  <2> QED
    BY <1>0, <1>1, <1>2, <1>5, <2>1, <2>2, Zenon DEF TypeOK
<1>7. Threads' /\ DialogInv'
  BY <1>0, <1>1, <1>2, <1>3 DEF Threads, DialogInv
<1>8. ModeInv'
  <2>1. CASE TakeMode
    BY <2>1 DEF TakeMode, ModeInv
  <2>2. CASE LoadMode
    BY <2>2 DEF LoadMode, ModeInv
  <2>3. CASE StoreMode
    <3>1. config'.accel = accel_on
      BY <1>0, <2>3 DEF StoreMode, Settings
    <3> QED
      BY <1>0, <2>3, <3>1 DEF StoreMode, ModeInv
  <2> QED
    BY <2>1, <2>2, <2>3 DEF QosTick
<1>9. TailInv'
  BY <1>2, <1>3 DEF TailInv
<1>10. KeptInv'
  BY <1>0, <1>1, <1>4, <1>5, Zenon DEF KeptInv, Keys
<1>11. ChoicesInv'
  BY <1>0, <1>1, <1>2, <1>5 DEF ChoicesInv, Begun, Fresh
<1> QED
  BY <1>6, <1>7, <1>8, <1>9, <1>10, <1>11 DEF IInv

\* The user toggles the mode or changes the pool.
LEMMA SettingStep ==
  ASSUME IInv, ToggleAccel \/ RaiseDirty \/ \E p \in Pool : ApplyPool(p)
  PROVE  IInv'
<1>0. /\ TypeOK /\ Threads /\ DialogInv /\ ModeInv /\ KeptInv /\ config \in Settings
      /\ accel_pending \in BOOLEAN
  BY DEF IInv, TypeOK
<1> USE DEF qos, bounds, store, life
<1>1. /\ UNCHANGED <<save, file, stale, failed, save_on_exit, early, running, dialogs,
                     escaped, posted>>
      /\ lost' \in {lost, lost \cup {"accel"}, lost \cup {"pool"}}
  BY SettingFrame
<1>2. /\ ui \in {"loop", "toggle", "apply"} /\ ui' \in {"loop", "toggle", "apply"}
      /\ tick' = tick /\ accel_on' = accel_on
      /\ \/ accel_pending' = accel_pending /\ mode_config_dirty' = mode_config_dirty /\ ui = "loop"
         \/ mode_config_dirty'
         \/ ui' = "toggle"
      /\ \/ config' = config /\ lost' = lost
         \/ lost' = lost \cup {"pool"} /\ \E p \in Pool : config' = [config EXCEPT !.pool = p]
  BY DEF ToggleAccel, RaiseDirty, ApplyPool
<1>3. config' \in Settings /\ config'.accel = config.accel
  BY <1>0, <1>2 DEF Settings
<1>4. TypeOK'
  <2>1. accel_pending' \in BOOLEAN /\ mode_config_dirty' \in BOOLEAN
    BY <1>0, Zenon DEF ToggleAccel, RaiseDirty, ApplyPool, TypeOK
  <2>2. lost' \subseteq Keys /\ ui' \in UI /\ ui' \notin {"dialog", "saving"}
    BY <1>0, <1>1, <1>2 DEF TypeOK, Keys, UI
  <2> QED
    BY <1>0, <1>1, <1>2, <1>3, <2>1, <2>2, Zenon DEF TypeOK
<1>5. Threads' /\ DialogInv'
  BY <1>0, <1>1, <1>2 DEF Threads, DialogInv
<1>6. ModeInv'
  BY <1>0, <1>2, <1>3 DEF ModeInv
<1>7. TailInv'
  BY <1>2 DEF TailInv
<1>8. KeptInv'
  BY <1>0, <1>1, <1>2, <1>3 DEF KeptInv, Keys
<1>9. ~escaped' => ~Begun'
  BY <1>0, <1>1, <1>2 DEF Begun, DialogInv
<1>10. ChoicesInv'
  BY <1>9 DEF ChoicesInv
<1> QED
  BY <1>4, <1>5, <1>6, <1>7, <1>8, <1>10 DEF IInv

\* The program starts, and is started again.
LEMMA StartStep == ASSUME IInv, Load \/ Restart PROVE IInv'
<1>0. /\ TypeOK /\ Threads /\ DialogInv /\ save \in [Writer -> WritePC \cup {"post", "done"}]
           /\ KeptInv
  BY DEF IInv, TypeOK
<1> USE DEF gui, qos, bounds, store, life
<1>1. CASE Load
  <2>1. /\ ui = "load" /\ ui' = "loop" /\ running' = TRUE /\ accel_pending' = config'.accel
        /\ UNCHANGED <<mode_config_dirty, tick, accel_on, save_on_exit, file, save, stale, failed, early,
             posted, dialogs, escaped>>
    BY <1>1 DEF Load
  <2>2. /\ config' \in Settings /\ lost' \subseteq Keys /\ KeptInv'
    <3>1. CASE file = Mixed
      BY <1>1, <2>1, <3>1 DEF Load, KeptInv
    <3>2. CASE file # Mixed
      <4>1. /\ file \in Lines /\ lost' = {}
            /\ config' = [k \in Keys |-> IF file[k] = Missing THEN Defaults[k] ELSE file[k]]
        BY <1>0, <1>1, <3>2 DEF Load, TypeOK
      <4>2. config' \in Settings
        BY <4>1, ShutdownConstants, Zenon DEF Lines, Settings, Keys, Defaults
      <4>3. \A k \in Keys : file[k] = config'[k] \/ (file[k] = Missing /\ config'[k] = Defaults[k])
        BY <4>1
      <4> QED
        BY <2>1, <3>2, <4>1, <4>2, <4>3 DEF KeptInv
    <3> QED
      BY <3>1, <3>2
  <2>3. config'.accel \in BOOLEAN
    BY <2>2 DEF Settings
  <2>4. TypeOK'
    BY <1>0, <2>1, <2>2, <2>3 DEF TypeOK, UI
  <2>5. Threads' /\ DialogInv' /\ ModeInv' /\ TailInv'
    BY <1>0, <2>1 DEF Threads, DialogInv, ModeInv, TailInv
  <2>6. ~escaped' => ~Begun'
    BY <1>0, <2>1 DEF Begun, DialogInv
  <2>7. ChoicesInv'
    BY <2>6 DEF ChoicesInv
  <2> QED
    BY <2>2, <2>4, <2>5, <2>7 DEF IInv
<1>2. CASE Restart
  <2>1. /\ ui' = "load" /\ running' = FALSE /\ mode_config_dirty' = FALSE /\ save_on_exit' = TRUE
        /\ tick' = "sleep" /\ accel_on' = TRUE
        /\ save' = [w \in Writer |-> "idle"] /\ stale' = {} /\ escaped' = FALSE
        /\ early' = FALSE /\ posted' = 0 /\ accel_pending' = TRUE /\ dialogs' = Dialogs
        /\ UNCHANGED <<config, file, lost>>
    BY <1>2 DEF Restart
  <2>2. \A w \in Writer : save'[w] = "idle"
    BY <2>1
  <2>3. TypeOK'
    <3>1. save' \in [Writer -> WritePC \cup {"post", "done"}] /\ dialogs' \in 0 .. Dialogs
      BY <2>1, ShutdownConstants DEF WritePC
    <3> QED
      BY <1>0, <2>1, <3>1, Zenon DEF TypeOK, UI
  <2>4. Threads' /\ DialogInv' /\ ModeInv' /\ TailInv' /\ KeptInv'
    BY <1>0, <2>1, <2>2, WritersDistinct
       DEF Threads, DialogInv, ModeInv, TailInv, KeptInv, WritePC
  <2>5. ChoicesInv'
    BY <2>1, <2>2, WritersDistinct, Zenon DEF ChoicesInv, Begun
  <2> QED
    BY <2>3, <2>4, <2>5 DEF IInv
<1> QED
  BY <1>1, <1>2

LEMMA StepIInv == IInv /\ [Next]_vars => IInv'
<1> SUFFICES ASSUME IInv, [Next]_vars PROVE IInv'
  OBVIOUS
<1>1. ASSUME NEW w \in Savers, Saver(w) PROVE IInv'
  BY <1>1, SaveStep, SaverStep, WritersDistinct DEF Saver
<1>2. CASE Services
  BY <1>2, SaveStep, ControlStep, WritersDistinct DEF Services
<1>3. CASE GuiThread
  BY <1>3, SaveStep, MainStep, GuiStep, StartStep, SettingStep, WritersDistinct DEF GuiThread
<1>4. CASE User
  BY <1>4, GuiStep, ClickSaveStep, SettingStep DEF User
<1>5. CASE Restart \/ QosTick \/ NotifyQuit \/ UNCHANGED vars
  BY <1>5, GuiStep, StartStep, TickStep
<1> QED
  BY <1>1, <1>2, <1>3, <1>4, <1>5 DEF Next

\* App::stop joins the services and the dialog waits for its thread, so no
\* other save is under way when main() saves or returns.
THEOREM SavesFinish == Spec => []SavesFinishBeforeExit
<1>1. IInv => SavesFinishBeforeExit
  BY DEF IInv, Threads, DialogInv, SavesFinishBeforeExit, Busy, Writer
<1> QED
  BY InitIInv, StepIInv, <1>1, PTL DEF Spec

\* What main() saved at the end is what was in effect.
THEOREM TailSavesExactly == Spec => []TailSaveExact
<1>1. IInv => TailSaveExact
  BY DEF IInv, TailInv, TailSaveExact
<1> QED
  BY InitIInv, StepIInv, <1>1, PTL DEF Spec

\* A program that ends after a save leaves the user's choices in the file, but
\* for a mode written before a tick had applied it and for the dialog's save
\* that overlaps the control thread's; main()'s own overlaps no other.
THEOREM ChoicesAreSaved == Spec => []ChoicesSaved
<1>1. ASSUME IInv PROVE ChoicesSaved
  <2> SUFFICES ASSUME ui = "exited", ~escaped,
                      \/ save_on_exit /\ Main \notin failed
                      \/ \E w \in Savers \ failed : save[w] = "done"
               PROVE  IF file = Mixed THEN ~save_on_exit
                      ELSE file.pool = config.pool /\ (early \/ file.accel = accel_pending)
    BY DEF ChoicesSaved
  <2>1. \A w \in Writer : save[w] \notin Writing
    BY <1>1 DEF IInv, Threads, DialogInv, Writer, Writing
  <2>2. Begun
    BY DEF Begun
  <2>3. file # Mixed => file.pool = config.pool /\ (early \/ file.accel = accel_pending)
    BY <1>1, <2>1, <2>2 DEF IInv, ChoicesInv, Fresh
  <2>4. save_on_exit => Main \notin failed
    BY <1>1 DEF IInv, Threads
  <2>5. save_on_exit => file = config
    BY <1>1, <2>4 DEF IInv, TailInv
  <2>6. config # Mixed
    BY <1>1, ShutdownConstants DEF IInv, TypeOK, Settings, Lines
  <2> QED
    BY <2>3, <2>5, <2>6
<1> QED
  BY InitIInv, StepIInv, <1>1, PTL DEF Spec

\* load_config after a crash at any point gives every setting whose line was
\* not lost its value.
THEOREM RestartKeeps == Spec => RestartKeepsSaved
<1>1. ASSUME IInv, Load PROVE \A k \in Keys \ lost : config'[k] = config[k]
  <2>1. CASE file = Mixed
    BY <1>1, <2>1 DEF IInv, KeptInv
  <2>2. CASE file # Mixed
    <3>1. config' = [k \in Keys |-> IF file[k] = Missing THEN Defaults[k] ELSE file[k]]
      BY <1>1, <2>2 DEF Load
    <3>2. \A k \in Keys : config[k] # Missing
      BY <1>1, ShutdownConstants DEF IInv, TypeOK, Settings, Keys
    <3> QED
      BY <1>1, <2>2, <3>1, <3>2 DEF IInv, KeptInv
  <2> QED
    BY <2>1, <2>2
<1>2. IInv /\ [Next]_vars => [Load => \A k \in Keys \ lost : config'[k] = config[k]]_vars
  BY <1>1
<1> QED
  BY InitIInv, StepIInv, <1>2, PTL DEF Spec, RestartKeepsSaved
=============================================================================
