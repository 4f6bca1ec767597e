---------------------------- MODULE DeviceTable ----------------------------
(***************************************************************************)
(* The device table of the telemetry service.  refreshDevices              *)
(* (src/ParameterServices.cpp) rewrites it in place from the ARP table; the *)
(* GUI thread's DevicePage::refresh (src/GUI/Dashboard.cpp) rebuilds its    *)
(* cards from it whenever the count or the revision has moved.  The entries *)
(* are neither atomic nor locked: only count and revision order the two     *)
(* threads.  A MAC that is being assigned holds Torn.                       *)
(***************************************************************************)
EXTENDS Naturals, Sequences

CONSTANTS Ip, Mac, None, Torn,  \* None: the content of a slot never written
          MaxDevices,           \* MAX_TRACKED_DEVICES
          Scans                 \* bound on ARP scans

\* DevicePage starts from 255, a count no table has.
NoCount == MaxDevices + 1

Device == [ip : Ip, mac : Mac]

VARIABLES device_table, device_count, device_table_revision,
          wpc,      \* the telemetry thread: position in refreshDevices
          rows,     \* the ARP rows of this scan, complete entries only
          dcnt, changed,
          ppc,      \* the GUI thread: position in DevicePage::refresh
          cnt, i,   \* its locals
          cards,    \* the entries on the page
          last_device_count, last_device_table_revision,
          scans

shared == <<device_table, device_count, device_table_revision>>
scanner == <<wpc, rows, dcnt, changed, scans>>
page == <<ppc, cnt, i, cards, last_device_count, last_device_table_revision>>
vars == <<shared, scanner, page>>

Init == /\ device_table = [k \in 1 .. MaxDevices |-> [ip |-> None, mac |-> None]]
        /\ device_count = 0 /\ device_table_revision = 0
        /\ wpc = "sleep" /\ rows = <<>> /\ dcnt = 0 /\ changed = FALSE /\ scans = 0
        /\ ppc = "idle" /\ cnt = 0 /\ i = 0 /\ cards = <<>>
        /\ last_device_count = NoCount /\ last_device_table_revision = 0

(***************************************************************************)
(* refreshDevices.                                                         *)
(***************************************************************************)
\* A scan reads at most one row more than the table holds.
Scan(r) == /\ wpc = "sleep" /\ scans < Scans
           /\ wpc' = "ip" /\ rows' = r /\ dcnt' = 0 /\ changed' = FALSE
           /\ scans' = scans + 1
           /\ UNCHANGED <<shared, page>>

More == dcnt < Len(rows) /\ dcnt < MaxDevices

WriteIp == /\ wpc = "ip" /\ More
           /\ LET ip == rows[dcnt + 1].ip
              IN /\ device_table' = [device_table EXCEPT ![dcnt + 1].ip = ip]
                 /\ changed' = (changed \/ device_table[dcnt + 1].ip # ip)
           /\ wpc' = "mac"
           /\ UNCHANGED <<device_count, device_table_revision, rows, dcnt, scans, page>>

\* The MAC is only assigned when it differs.
TearMac == /\ wpc = "mac" /\ device_table[dcnt + 1].mac # rows[dcnt + 1].mac
           /\ device_table' = [device_table EXCEPT ![dcnt + 1].mac = Torn]
           /\ wpc' = "copy"
           /\ UNCHANGED <<device_count, device_table_revision, rows, dcnt, changed, scans, page>>

WriteMacQuietly == /\ wpc = "copy"
                   /\ device_table' = [device_table EXCEPT ![dcnt + 1].mac = rows[dcnt + 1].mac]
                   /\ dcnt' = dcnt + 1 /\ wpc' = "ip"
                   /\ UNCHANGED <<device_count, device_table_revision, rows, changed, scans, page>>

WriteMac == /\ wpc = "copy"
            /\ device_table' = [device_table EXCEPT ![dcnt + 1].mac = rows[dcnt + 1].mac]
            /\ changed' = TRUE /\ dcnt' = dcnt + 1 /\ wpc' = "ip"
            /\ UNCHANGED <<device_count, device_table_revision, rows, scans, page>>

KeepMac == /\ wpc = "mac" /\ device_table[dcnt + 1].mac = rows[dcnt + 1].mac
           /\ dcnt' = dcnt + 1 /\ wpc' = "ip"
           /\ UNCHANGED <<shared, rows, changed, scans, page>>

StoreCount == /\ wpc = "ip" /\ ~More
              /\ device_count' = dcnt
              /\ changed' = (changed \/ device_count # dcnt)
              /\ wpc' = "revision"
              /\ UNCHANGED <<device_table, device_table_revision, rows, dcnt, scans, page>>

BumpRevision == /\ wpc = "revision"
                /\ device_table_revision' = device_table_revision + (IF changed THEN 1 ELSE 0)
                /\ wpc' = "sleep" /\ rows' = <<>> /\ dcnt' = 0 /\ changed' = FALSE
                /\ UNCHANGED <<device_table, device_count, scans, page>>

(***************************************************************************)
(* DevicePage::refresh, from the GUI's timer.                              *)
(***************************************************************************)
\* Dashboard::timerEvent refreshes the page while it is the one shown, and
\* run_page_enter_refresh when its tab is clicked.
Show == /\ ppc = "idle" /\ ppc' = "count"
        /\ UNCHANGED <<shared, scanner, cnt, i, cards, last_device_count, last_device_table_revision>>

LoadCount == /\ ppc = "count" /\ cnt' = device_count /\ ppc' = "revision"
             /\ UNCHANGED <<shared, scanner, i, cards, last_device_count, last_device_table_revision>>

LoadRevision ==
  /\ ppc = "revision"
  /\ IF cnt = last_device_count /\ device_table_revision = last_device_table_revision
     THEN ppc' = "idle" /\ UNCHANGED <<i, cards, last_device_count, last_device_table_revision>>
     ELSE /\ ppc' = "card" /\ i' = 0 /\ cards' = <<>>
          /\ last_device_count' = cnt /\ last_device_table_revision' = device_table_revision
  /\ UNCHANGED <<shared, scanner, cnt>>

\* The label is built from the entry's address and then its MAC; a torn MAC
\* shows as such.
AddCard == /\ ppc = "card" /\ i < cnt
           /\ cards' = Append(cards, [ip |-> device_table[i + 1].ip, mac |-> None])
           /\ ppc' = "label"
           /\ UNCHANGED <<shared, scanner, cnt, i, last_device_count, last_device_table_revision>>

LabelMac == /\ ppc = "label"
            /\ cards' = [cards EXCEPT ![i + 1].mac = device_table[i + 1].mac]
            /\ i' = i + 1 /\ ppc' = "card"
            /\ UNCHANGED <<shared, scanner, cnt, last_device_count, last_device_table_revision>>

CardsDone == /\ ppc = "card" /\ i = cnt /\ ppc' = "idle"
             /\ UNCHANGED <<shared, scanner, cnt, i, cards, last_device_count, last_device_table_revision>>

Rows == UNION {[1 .. n -> Device] : n \in 0 .. MaxDevices + 1}

Scanner == \/ WriteIp \/ TearMac \/ WriteMac \/ KeepMac \/ StoreCount \/ BumpRevision
           \/ \E r \in Rows : Scan(r)
Page == LoadCount \/ LoadRevision \/ AddCard \/ LabelMac \/ CardsDone

Next == Scanner \/ Show \/ Page
Spec == Init /\ [][Next]_vars

-----------------------------------------------------------------------------

\* The page never settles on a stale or torn entry: when both threads are
\* idle and the page would not rebuild (it has seen the current count and
\* revision), its cards are exactly the entries of the table, although it
\* read them while the telemetry thread was free to rewrite them.  Neither
\* the count nor the revision would be enough: the page loads the count
\* first, so it may pair an old count with a new revision.
SettledPageIsCurrent ==
  /\ wpc = "sleep" /\ ppc = "idle"
  /\ last_device_count = device_count /\ last_device_table_revision = device_table_revision
  => cards = SubSeq(device_table, 1, device_count)
=============================================================================
