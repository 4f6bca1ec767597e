----------------------------- MODULE Dashboard -----------------------------
(***************************************************************************)
(* The GUI thread's timer event (Dashboard::timerEvent) against the threads *)
(* it reads from: it loads the data plane's counters for the rates          *)
(* (Pipeline), rebuilds the device page if that is the one shown            *)
(* (DeviceTable), and takes the snapshot for the next event.                *)
(***************************************************************************)
EXTENDS Pipeline

CONSTANTS Ip, Mac, None, Torn, MaxDevices, Scans

ASSUME DashboardConstants == /\ MaxDevices \in Nat \ {0} /\ Scans \in Nat
                             /\ {None, Torn} \cap (Ip \cup Mac) = {} /\ None # Torn

VARIABLES device_table, device_count, device_table_revision, wpc, rows, dcnt, changed,
          ppc, cnt, i, cards, last_device_count, last_device_table_revision, scans

D == INSTANCE DeviceTable

table == <<device_table, device_count, device_table_revision, wpc, rows, dcnt, changed,
           ppc, cnt, i, cards, last_device_count, last_device_table_revision, scans>>

DashboardInit == Init /\ D!Init

\* Bound: the data plane and the telemetry thread share no variable, so a
\* behaviour runs the GUI thread against the one or the other.
CountersOnly == scans = 0
TableOnly == frames = 0

DataPlane == CountersOnly /\ ((\E c \in Core : Consumer(c)) \/ SwitchMode) /\ UNCHANGED table
Telemetry == TableOnly /\ D!Scanner /\ UNCHANGED vars

\* timerEvent: header rates, chart, device page, snapshot.  A click on the
\* page's tab refreshes it between two timer events.
TimerLoads == Loads /\ ppc = "idle" /\ UNCHANGED table
TimerRates == Rates /\ UNCHANGED table
PageRefresh == gpc \in {"last", "idle"} /\ (D!Show \/ D!Page) /\ UNCHANGED vars
TimerSnapshot == Snapshot /\ ppc = "idle" /\ UNCHANGED table

DashboardNext == DataPlane \/ Telemetry \/ TimerLoads \/ TimerRates \/ PageRefresh \/ TimerSnapshot
DashboardSpec == DashboardInit /\ [][DashboardNext]_<<vars, table>>

-----------------------------------------------------------------------------

\* The page shows the table once both threads have come to rest on it, as in
\* DeviceTable.
SettledPageIsCurrent == D!SettledPageIsCurrent
=============================================================================
