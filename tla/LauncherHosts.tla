----------------------------- MODULE LauncherHosts ----------------------------
(***************************************************************************)
(* The launcher: LauncherHostModel, the rows that the user sees and edits, *)
(* with its probes; HostStore, the registry keys behind them; and          *)
(* ChildProcessManager with the viewer processes that it starts.           *)
(*                                                                         *)
(* Every operation of the model runs on the GUI thread in one event.  The  *)
(* probes run on a thread pool and answer with a queued event, the viewers *)
(* are processes with a life of their own that write to the same registry, *)
(* the registry may fail between two values of a host, and the launcher    *)
(* may end at any time and start again.                                    *)
(***************************************************************************)
EXTENDS Naturals, Sequences, SequencesExt, FiniteSets

CONSTANTS
  MaxHosts,      \* bound of the model: hosts ever added
  Addresses,     \* the addresses of hosts, numbered in the order of their names
  Credentials,   \* what the user enters for a host; 0 is nothing
  MaxDeeds,      \* bound of the model: edits, connects and restarts of the launcher
  MaxProbes      \* bound of the model: probes that run or wait for the GUI thread

ASSUME LauncherAssumption ==
  /\ Addresses \subseteq Nat \ {0}
  /\ Credentials \subseteq Nat
  /\ {MaxHosts, MaxDeeds, MaxProbes} \subseteq Nat

VARIABLES
  rows,        \* LauncherHostModel::hosts_
  inFlight,    \* probes_in_flight_
  failures,    \* consecutive_probe_failures_
  probes,      \* probes that the pool has yet to run
  answers,     \* answers queued for the GUI thread
  store,       \* the registry: for each host its values, or none
  pins,        \* the hosts in whose keys a viewer has written something of its own
  viewers,     \* the viewer processes, in the order in which they were started
  hosts,       \* ids given out so far
  deeds,       \* edits, connects and restarts so far
  torn,        \* history: hosts whose last write failed half way
  leftover,    \* history: hosts that a start of the launcher found so
  failedLast   \* history: hosts whose last answer, since they got it, was a failure

rowVars == <<rows, inFlight, failures, probes, answers, failedLast>>
storeVars == <<store, pins, torn, leftover>>
launcherVars == <<rowVars, storeVars, viewers, hosts, deeds>>

Ids == 1 .. MaxHosts
Statuses == {"unknown", "checking", "online", "offline"}
OfflineThreshold == 2        \* kOnlineOfflineFailureThreshold

NoKey == [exists |-> FALSE, url |-> 0, credentials |-> 0]
Key(url, credentials) == [exists |-> TRUE, url |-> url, credentials |-> credentials]
Row(id, url, credentials, status) ==
  [id |-> id, url |-> url, credentials |-> credentials, status |-> status]

\* saved_host_hostname_less: by name, then by id.
Before(a, b) == a.url < b.url \/ (a.url = b.url /\ a.id < b.id)

\* std::sort: in the i-th place is the one that i - 1 others come before.
Sorted(set) ==
  [i \in 1 .. Cardinality(set) |->
     CHOOSE row \in set : Cardinality({other \in set : Before(other, row)}) = i - 1]

Deed == deeds < MaxDeeds /\ deeds' = deeds + 1

HasRow(id) == \E i \in DOMAIN rows : rows[i].id = id
\* index_for_id() and index_for_url(), where there is such a row.
IndexForId(id) == CHOOSE i \in DOMAIN rows : rows[i].id = id
UrlTaken(url) == \E i \in DOMAIN rows : rows[i].url = url

\* read_host_from_key(): a key without an address is no host.
Readable(id) == store[id].url # 0
ReadHost(id) == Row(id, store[id].url, store[id].credentials, "unknown")

LoadHosts == Sorted({ReadHost(id) : id \in {i \in Ids : Readable(i)}})

\* The first start of the launcher, or a later one that finds a host.
LauncherInit ==
  /\ hosts \in 0 .. 1
  /\ \E url \in Addresses, credentials \in Credentials :
       store = [id \in Ids |-> IF id <= hosts THEN Key(url, credentials) ELSE NoKey]
  /\ rows = LoadHosts
  /\ inFlight = {}
  /\ failures = [id \in Ids |-> 0]
  /\ probes = <<>>
  /\ answers = <<>>
  /\ pins = {}
  /\ viewers = <<>>
  /\ deeds = 0
  /\ torn = {}
  /\ leftover = {}
  /\ failedLast = {}

-----------------------------------------------------------------------------
\* start_probes(): a probe for every row that has none in flight.
Due(table, flying) == SelectSeq(table, LAMBDA r : r.id \notin flying)

StartProbes(table, flying) ==
  LET due == Due(table, flying)
  IN  /\ Len(probes) + Len(answers) + Len(due) <= MaxProbes
      /\ inFlight' = flying \cup {due[i].id : i \in DOMAIN due}
      /\ probes' = probes \o [i \in DOMAIN due |-> [id |-> due[i].id, url |-> due[i].url]]
      /\ rows' = [i \in DOMAIN table |->
                    IF table[i].id \notin flying /\ table[i].status = "unknown"
                    THEN [table[i] EXCEPT !.status = "checking"] ELSE table[i]]

\* HostStore::save_host(): type, address and credentials are written one after the other,
\* and the first that fails ends it, with what was written before it.
SaveHost(id, url, credentials, written) ==
  /\ Deed
  /\ store' = [store EXCEPT ![id] =
                 CASE written = "nothing" -> @
                   [] written = "type" -> Key(@.url, @.credentials)
                   [] written = "url" -> Key(url, @.credentials)
                   [] written = "all" -> Key(url, credentials)]
  /\ torn' = IF written \in {"all", "nothing"} THEN torn \ {x \in {id} : written = "all"}
                                              ELSE torn \cup {id}
  /\ UNCHANGED <<pins, leftover>>

Written == {"nothing", "type", "url", "all"}

\* insertion_row_for_host(): lower_bound() in rows that are sorted.
InsertionRow(row) == 1 + Cardinality({i \in DOMAIN rows : Before(rows[i], row)})

\* addHost(), and quickConnect() to an address that is new: saved first, then inserted in
\* its place.
AddHost(url, credentials) ==
  /\ hosts < MaxHosts
  /\ ~UrlTaken(url)
  /\ hosts' = hosts + 1
  /\ LET id == hosts + 1
         row == Row(id, url, credentials, "unknown")
     IN  \E written \in Written :
           /\ SaveHost(id, url, credentials, written)
           /\ IF written = "all"
              THEN StartProbes(InsertAt(rows, InsertionRow(row), row), inFlight)
              ELSE UNCHANGED <<rows, inFlight, probes>>
  /\ UNCHANGED <<failures, answers, failedLast, viewers>>

\* updateHost(): with another address the probe of the old one is forgotten, before the
\* store is asked, and a new one started.
UpdateHost(id, url, credentials) ==
  /\ HasRow(id)
  /\ LET at == IndexForId(id)
         changed == rows[at].url # url
         flying == IF changed THEN inFlight \ {id} ELSE inFlight
         status == IF changed THEN "unknown" ELSE rows[at].status
         table == Sorted(ToSet([rows EXCEPT ![at] = Row(id, url, credentials, status)]))
     IN  /\ ~changed \/ ~UrlTaken(url)
         /\ failures' = IF changed THEN [failures EXCEPT ![id] = 0] ELSE failures
         /\ \E written \in Written :
              /\ SaveHost(id, url, credentials, written)
              /\ IF written = "all" /\ changed
                 THEN /\ StartProbes(table, flying)
                      /\ failedLast' = failedLast \ {id}
                 ELSE /\ rows' = IF written = "all" THEN table ELSE rows
                      /\ inFlight' = flying
                      /\ UNCHANGED <<probes, failedLast>>
  /\ UNCHANGED <<answers, viewers, hosts>>

\* quickConnect() to a host that is there, with credentials to save: the row stays.
SaveCredentials(id, credentials) ==
  /\ HasRow(id)
  /\ LET at == IndexForId(id)
     IN  \E written \in Written :
           /\ SaveHost(id, rows[at].url, credentials, written)
           /\ rows' = IF written = "all"
                      THEN [rows EXCEPT ![at].credentials = credentials] ELSE rows
  /\ UNCHANGED <<inFlight, failures, probes, answers, failedLast, viewers, hosts>>

\* HostStore::delete_host(), once it has found the key.
RemoveKey(id) ==
  /\ store' = [store EXCEPT ![id] = NoKey]
  /\ pins' = pins \ {id}
  /\ torn' = torn \ {id}

\* deleteHost(), whose registry call deletes the key or nothing.
DeleteHost(id) ==
  /\ HasRow(id)
  /\ Deed
  /\ \/ UNCHANGED <<rows, inFlight, failures, store, pins, torn, failedLast>>
     \/ /\ rows' = RemoveAt(rows, IndexForId(id))
        /\ inFlight' = inFlight \ {id}
        /\ failures' = [failures EXCEPT ![id] = 0]
        /\ RemoveKey(id)
        /\ failedLast' = failedLast \ {id}
  /\ UNCHANGED <<probes, answers, viewers, hosts, leftover>>

-----------------------------------------------------------------------------
\* probe_timer_, every second.
ProbeTimer ==
  /\ Due(rows, inFlight) # <<>>
  /\ StartProbes(rows, inFlight)
  /\ UNCHANGED <<failures, answers, failedLast, storeVars, viewers, hosts, deeds>>

\* probe_host() on the pool, and deliver_result().
RunProbe(i) ==
  /\ \E online \in BOOLEAN :
       answers' = Append(answers, [id |-> probes[i].id, url |-> probes[i].url,
                                   online |-> online])
  /\ probes' = RemoveAt(probes, i)
  /\ UNCHANGED <<rows, inFlight, failures, failedLast, storeVars, viewers, hosts, deeds>>

\* A mutant of Tolerated: one failure is enough.
ToleratedNever(row, count) == FALSE

\* A host that is online stays so at its first failure.
Tolerated(row, count) == row.status = "online" /\ count < OfflineThreshold

\* The probe of a host is no longer in flight, whatever it says and whether it is there.
Landed(id) == inFlight \ {id}

\* update_reachability() in the event of an answer, which names the host and not the
\* address that was probed.
UpdateReachability ==
  /\ answers # <<>>
  /\ LET answer == Head(answers)
         id == answer.id
         count == failures[id] + 1
         at == IndexForId(id)
     IN  /\ inFlight' = Landed(id)
         /\ IF ~HasRow(id)
            THEN UNCHANGED <<rows, failures, failedLast>>
            ELSE /\ failures' = [failures EXCEPT ![id] =
                                   IF answer.online THEN 0 ELSE IF count > 2 THEN 2 ELSE count]
                 /\ rows' = [rows EXCEPT ![at].status =
                               IF answer.online THEN "online"
                               ELSE IF Tolerated(rows[at], count) THEN @ ELSE "offline"]
                 /\ failedLast' = IF answer.online THEN failedLast \ {id}
                                                   ELSE failedLast \cup {id}
  /\ answers' = Tail(answers)
  /\ UNCHANGED <<probes, storeVars, viewers, hosts, deeds>>

-----------------------------------------------------------------------------
\* process_has_window(): a window that is visible and has no owner.
HasWindow(viewer) == viewer.state = "window"

\* activate_or_launch(): a viewer of this launcher that has a window is activated ...
Active(id) ==
  \E i \in DOMAIN viewers : viewers[i].id = id /\ viewers[i].known /\ HasWindow(viewers[i])

\* ... and otherwise one is started, with the credentials of the row, or those that
\* quickConnect() was given and need not save.  It waits until the process is there.
ConnectHost(id) ==
  /\ HasRow(id)
  /\ ~Active(id)
  /\ Deed
  /\ viewers' = Append(viewers, [id |-> id, state |-> "starting", known |-> TRUE])
  /\ UNCHANGED <<rowVars, storeVars, hosts>>

ViewerStep(i, from, to) ==
  /\ viewers[i].state = from
  /\ viewers' = [viewers EXCEPT ![i].state = to]
  /\ UNCHANGED <<rowVars, storeVars, hosts, deeds>>

ViewerExits(i) ==
  /\ viewers' = RemoveAt(viewers, i)
  /\ UNCHANGED <<rowVars, storeVars, hosts, deeds>>

\* run_launcher_child() up to its window, and the end of the process, which comes with the
\* end of the window at the latest.
ViewerProcess(i) ==
  \/ ViewerStep(i, "starting", "window")
  \/ ViewerExits(i)

\* A mutant of SavePinnedCert: create_key() for open_key().
SavePinnedCertCreates(i) ==
  /\ HasWindow(viewers[i])
  /\ pins' = pins \cup {viewers[i].id}
  /\ store' = [store EXCEPT ![viewers[i].id].exists = TRUE]
  /\ UNCHANGED <<rowVars, viewers, hosts, deeds, torn, leftover>>

\* save_pinned_cert() by a viewer: a host that no longer exists is not recreated ...
SavePinnedCert(i) ==
  /\ HasWindow(viewers[i])
  /\ store[viewers[i].id].exists
  /\ pins' = pins \cup {viewers[i].id}
  /\ UNCHANGED <<rowVars, store, viewers, hosts, deeds, torn, leftover>>

\* ... nor by what save_window_rect() and save_keyboard_layout() write, of which the model
\* keeps no more than of a pin.
SaveWindowRect(i) == SavePinnedCert(i)
SaveKeyboardLayout(i) == SavePinnedCert(i)

\* The launcher ends, by the user or by an error, and is started again.  Its probes are
\* gone with it; the viewers are not, but nobody knows of them.
Restart ==
  /\ Deed
  /\ rows' = LoadHosts
  /\ inFlight' = {}
  /\ failures' = [id \in Ids |-> 0]
  /\ probes' = <<>>
  /\ answers' = <<>>
  /\ failedLast' = {}
  /\ viewers' = [i \in DOMAIN viewers |-> [viewers[i] EXCEPT !.known = FALSE]]
  /\ leftover' = leftover \cup torn
  /\ UNCHANGED <<store, pins, torn, hosts>>

-----------------------------------------------------------------------------
EditNext ==
  \/ \E url \in Addresses, credentials \in Credentials : AddHost(url, credentials)
  \/ \E id \in Ids :
       \/ \E url \in Addresses, credentials \in Credentials : UpdateHost(id, url, credentials)
       \/ \E credentials \in Credentials \ {0} : SaveCredentials(id, credentials)
       \/ DeleteHost(id)

ViewerNext ==
  \E i \in DOMAIN viewers :
    ViewerProcess(i) \/ SavePinnedCert(i) \/ SaveWindowRect(i) \/ SaveKeyboardLayout(i)

LauncherNext ==
  \/ EditNext
  \/ ProbeTimer
  \/ \E i \in DOMAIN probes : RunProbe(i)
  \/ UpdateReachability
  \/ \E id \in Ids : ConnectHost(id)
  \/ ViewerNext
  \/ Restart

LauncherSpec == LauncherInit /\ [][LauncherNext]_launcherVars

-----------------------------------------------------------------------------
LauncherTypeOK ==
  /\ \A i \in DOMAIN rows :
       rows[i] \in [id : Ids, url : Addresses, credentials : {0} \cup Credentials,
                    status : Statuses]
  /\ inFlight \subseteq Ids
  /\ failures \in [Ids -> 0 .. OfflineThreshold]
  /\ \A i \in DOMAIN probes : probes[i] \in [id : Ids, url : Addresses]
  /\ \A i \in DOMAIN answers : answers[i] \in [id : Ids, url : Addresses, online : BOOLEAN]
  /\ Len(probes) + Len(answers) <= MaxProbes
  /\ store \in [Ids -> [exists : BOOLEAN, url : {0} \cup Addresses,
                       credentials : {0} \cup Credentials]]
  /\ pins \subseteq Ids
  /\ \A i \in DOMAIN viewers :
       viewers[i] \in [id : Ids, known : BOOLEAN, state : {"starting", "window"}]
  /\ hosts \in 0 .. MaxHosts
  /\ deeds \in 0 .. MaxDeeds
  /\ {torn, leftover} \subseteq SUBSET Ids
  /\ failedLast \subseteq Ids

\* The rows are what the store would give at the next start, in the same order, but for
\* hosts whose last write failed half way; and what was deleted does not come back by what
\* its viewers write.
RowsMatchStore ==
  /\ rows = Sorted(ToSet(rows))
  /\ \A id \in Ids \ torn :
       IF HasRow(id)
       THEN LET row == rows[IndexForId(id)] IN store[id] = Key(row.url, row.credentials)
       ELSE store[id] = NoKey

\* No address is in the list twice, but for what a failed write left behind in the store:
\* an id that is told apart from another only by its number confuses the user.
AddressesAreUnique ==
  \A i, j \in DOMAIN rows :
    i # j /\ rows[i].url = rows[j].url => {rows[i].id, rows[j].id} \cap leftover # {}

\* What the launcher shows is what it has saved, and one row for each address, whatever
\* was written half or by a viewer meanwhile (addHost, updateHost, deleteHost, the store).
ListIsSound == RowsMatchStore /\ AddressesAreUnique

\* A host that is shown online is shown offline only after two answers in a row that said
\* so, both since it got its address.
OfflineNeedsTwoFailures ==
  [][\A i \in DOMAIN rows, j \in DOMAIN rows' :
       rows[i].id = rows'[j].id /\ rows[i].status = "online" /\ rows'[j].status = "offline"
         => rows[i].id \in failedLast /\ ~Head(answers).online]_launcherVars

=============================================================================
