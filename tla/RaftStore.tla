----------------------------- MODULE RaftStore -----------------------------
(***************************************************************************)
(* What a Raft node keeps on disk: the log in LevelDB (log_store.cpp), the *)
(* server's term and vote (state_manager.cpp), and the snapshots of the    *)
(* atomizer's state machine (atomizer/state_machine.cpp), while the        *)
(* process may be killed between any two writes.                           *)
(*                                                                         *)
(* NuRaft, which calls these, is external: it appends entries, overwrites  *)
(* those of an old leader, commits in order, asks for snapshots, compacts  *)
(* the log up to a snapshot, and installs a snapshot of the leader by      *)
(* saving it, compacting the log, and applying it.  An entry knows the     *)
(* index it is meant for; "stale" ones were never committed.  The state of *)
(* the machine is the sequence of the entries it applied.                  *)
(***************************************************************************)
EXTENDS Naturals, FiniteSets, SequencesExt

CONSTANTS MaxIndex, MaxKills, MaxTerm

VARIABLES
    db,                     \* LevelDB: from keys to entries
    m_next_idx, m_start_idx,
    m_last_committed_idx,
    machine,                \* the state of the state machine
    snapshots,              \* the files in m_snapshot_dir, by name
    tmp_file,               \* <<>>, or <<contents>>; contents may be Torn
    createPc, createIdx,    \* where create_snapshot is, and its snapshot
    installPc, installIdx,  \* where the installation of a snapshot is
    known,                  \* the last snapshot NuRaft knows of
    state_file, state_tmp,  \* m_state_file and its temporary file
    savePc, savedTerm,      \* where save_state is, and the last term it saved
    alive, kills,
    highest                 \* the highest index ever applied

logVars == <<db, m_next_idx, m_start_idx>>
machineVars == <<m_last_committed_idx, machine, highest>>
snapshotVars == <<snapshots, tmp_file, createPc, createIdx, installPc,
                  installIdx, known>>
stateVars == <<state_file, state_tmp, savePc, savedTerm>>
storeVars == <<logVars, machineVars, snapshotVars, stateVars, alive, kills>>

Good(i) == <<i, "good">>
Stale(i) == <<i, "stale">>
Torn == <<<<0, "torn">>>>   \* a file that is not written to its end
Prefix(n) == [i \in 1..n |-> Good(i)]
LogWithout(f, S) == [i \in DOMAIN f \ S |-> f[i]]
With(f, i, v) == [j \in DOMAIN f \cup {i} |-> IF j = i THEN v ELSE f[j]]

StoreInit ==
    /\ db = <<>> /\ m_next_idx = 1 /\ m_start_idx = 1
    /\ m_last_committed_idx = 0 /\ machine = <<>> /\ highest = 0
    /\ snapshots = <<>> /\ tmp_file = <<>>
    /\ createPc = "idle" /\ createIdx = 0 /\ installPc = "idle" /\ installIdx = 0
    /\ known = 0
    /\ state_file = <<>> /\ state_tmp = <<>> /\ savePc = "idle" /\ savedTerm = 0
    /\ alive = TRUE /\ kills = 0

-----------------------------------------------------------------------------
\* log_store

first_index(d) == IF DOMAIN d = {} THEN 1 ELSE Min(DOMAIN d)
last_index(d) == IF DOMAIN d = {} THEN 0 ELSE Max(DOMAIN d)

\* The null entry has no index and term 0.
entry_at(i) == IF i \in DOMAIN db THEN db[i] ELSE <<0, "null">>
last_entry == entry_at(last_index(db))

\* The iterator starts at the first key from start on, and asserts that there
\* are enough.
log_entries(start, end) ==
    LET keys == SetToSortSeq({k \in DOMAIN db : k >= start}, <)
    IN  [i \in 1..(end - start) |-> IF i > Len(keys) THEN <<0, "assert">>
                                    ELSE db[keys[i]]]

append(e) ==
    /\ db' = With(db, m_next_idx, e)
    /\ m_next_idx' = m_next_idx + 1
    /\ UNCHANGED m_start_idx

\* (Faulty: the entries after the one that is written stay.)
write_at_only(i, e) ==
    /\ db' = With(db, i, e)
    /\ m_next_idx' = i + 1
    /\ UNCHANGED m_start_idx

write_at(i, e) ==
    /\ db' = With(LogWithout(db, (i + 1)..(m_next_idx - 1)), i, e)
    /\ m_next_idx' = i + 1
    /\ UNCHANGED m_start_idx

apply_pack(i, entries) ==
    /\ db' = [j \in DOMAIN db \cup i..(i + Len(entries) - 1) |->
                IF j >= i /\ j < i + Len(entries) THEN entries[j - i + 1] ELSE db[j]]
    /\ m_start_idx' = first_index(db')
    /\ m_next_idx' = last_index(db') + 1

compact(i) ==
    /\ db' = LogWithout(db, m_start_idx..i)
    /\ m_start_idx' = i + 1
    /\ m_next_idx' = IF m_next_idx > i + 1 THEN m_next_idx ELSE i + 1

\* A write without a lasting effect, for its sync.
flush == LogWithout(With(db, 0, <<0, "dummy">>), {0})

-----------------------------------------------------------------------------
\* NuRaft's calls.  After a restart the log may end before the snapshot does;
\* nothing is appended then.
Behind == m_next_idx <= m_last_committed_idx

LogUp == alive /\ UNCHANGED <<snapshotVars, stateVars, alive, kills>>

\* The log's end agrees with the leader's: its last entry, or the snapshot.
EndsGood ==
    IF DOMAIN db = {} THEN m_next_idx = m_last_committed_idx + 1
    ELSE last_entry = Good(m_next_idx - 1)

Appends ==
    /\ LogUp /\ ~Behind /\ m_next_idx <= MaxIndex
    /\ \/ EndsGood /\ append(Good(m_next_idx))
       \/ append(Stale(m_next_idx))
    /\ UNCHANGED machineVars

Overwrites ==
    /\ LogUp /\ ~Behind
    /\ \E i \in DOMAIN db :
        /\ db[i] = Stale(i) /\ (i - 1 \in DOMAIN db => db[i - 1] = Good(i - 1))
        /\ write_at(i, Good(i))
    /\ UNCHANGED machineVars

AppliesPack ==
    /\ LogUp /\ ~Behind /\ EndsGood
    /\ \E n \in 1..2 :
        /\ m_next_idx + n - 1 <= MaxIndex
        /\ apply_pack(m_next_idx, [i \in 1..n |-> Good(m_next_idx + i - 1)])
    /\ UNCHANGED machineVars

Flushes == LogUp /\ db' = flush /\ UNCHANGED <<m_next_idx, m_start_idx, machineVars>>

\* commit, and commit_config for an entry that changes the cluster: by the
\* thread that creates snapshots.
commit ==
    /\ LogUp /\ createPc \in {"idle", "compact"} /\ installPc # "apply"
    /\ LET i == m_last_committed_idx + 1
       IN  /\ i < m_next_idx /\ entry_at(i) # Stale(i)
           /\ m_last_committed_idx' = i
           /\ machine' = Append(machine, entry_at(i))
           /\ highest' = IF i > highest THEN i ELSE highest
    /\ UNCHANGED logVars

-----------------------------------------------------------------------------
\* Snapshots.  The file of a temporary name is written, and then renamed.
Writing(pc) == pc \in {"write", "rename", "remove"}

SnapshotUp == alive /\ UNCHANGED <<stateVars, alive, kills>>

create_snapshot ==
    /\ SnapshotUp /\ UNCHANGED <<installPc, installIdx>>
    /\ \/ /\ createPc = "idle" /\ installPc = "idle" /\ m_last_committed_idx > known
          /\ createPc' = "write" /\ createIdx' = m_last_committed_idx
          /\ tmp_file' = <<Torn>>
          /\ UNCHANGED <<logVars, machineVars, snapshots, known>>
       \/ /\ createPc = "write" /\ createPc' = "rename"
          /\ tmp_file' = <<machine>>
          /\ UNCHANGED <<logVars, machineVars, snapshots, createIdx, known>>
       \/ /\ createPc = "rename" /\ createPc' = "remove"
          /\ snapshots' = With(snapshots, createIdx, tmp_file[1]) /\ tmp_file' = <<>>
          /\ UNCHANGED <<logVars, machineVars, createIdx, known>>
       \/ /\ createPc = "remove"
          /\ IF \E f \in DOMAIN snapshots : f < createIdx
             THEN /\ \E f \in DOMAIN snapshots :
                        f < createIdx /\ snapshots' = LogWithout(snapshots, {f})
                  /\ UNCHANGED <<createPc, known>>
             ELSE createPc' = "compact" /\ known' = createIdx /\ UNCHANGED snapshots
          /\ UNCHANGED <<logVars, machineVars, tmp_file, createIdx>>
       \/ /\ createPc = "compact" /\ createPc' = "idle"     \* by NuRaft, or not
          /\ \/ \E i \in m_start_idx..createIdx : compact(i)
             \/ UNCHANGED logVars
          /\ UNCHANGED <<machineVars, snapshots, tmp_file, createIdx, known>>

\* save_logical_snp_obj for a snapshot of the leader, and apply_snapshot.
install_snapshot ==
    /\ SnapshotUp /\ ~Writing(createPc) /\ UNCHANGED <<createPc, createIdx>>
    /\ \/ /\ installPc = "idle"
          /\ \E s \in (m_last_committed_idx + 1)..MaxIndex : installIdx' = s
          /\ installPc' = "write" /\ tmp_file' = <<Torn>>
          /\ UNCHANGED <<logVars, machineVars, snapshots, known>>
       \/ /\ installPc = "write" /\ installPc' = "rename"
          /\ tmp_file' = <<Prefix(installIdx)>>
          /\ UNCHANGED <<logVars, machineVars, snapshots, installIdx, known>>
       \/ /\ installPc = "rename" /\ installPc' = "compact"
          /\ snapshots' = With(snapshots, installIdx, tmp_file[1]) /\ tmp_file' = <<>>
          /\ UNCHANGED <<logVars, machineVars, installIdx, known>>
       \/ /\ installPc = "compact" /\ createPc = "idle"
          /\ IF installIdx > m_last_committed_idx
             THEN installPc' = "apply" /\ compact(installIdx)
             ELSE installPc' = "idle" /\ UNCHANGED logVars
          /\ UNCHANGED <<machineVars, snapshots, tmp_file, installIdx, known>>
       \/ /\ installPc = "apply" /\ installPc' = "idle"
          /\ machine' = snapshots[installIdx]
          /\ m_last_committed_idx' = installIdx /\ known' = installIdx
          /\ highest' = IF installIdx > highest THEN installIdx ELSE highest
          /\ UNCHANGED <<logVars, snapshots, tmp_file, installIdx>>

\* read_snapshot(0): the newest file, the temporary one aside.
newest_snapshot == IF DOMAIN snapshots = {} THEN 0 ELSE Max(DOMAIN snapshots)

\* read_logical_snp_obj: <<>> if the snapshot is not there any more.
read_logical_snp_obj(i) == IF i \in DOMAIN snapshots THEN <<snapshots[i]>> ELSE <<>>

-----------------------------------------------------------------------------
\* save_object for the server's term and vote.
save_state ==
    /\ alive /\ UNCHANGED <<logVars, machineVars, snapshotVars, alive, kills>>
    /\ \/ /\ savePc = "idle" /\ savedTerm < MaxTerm /\ savePc' = "write"
          /\ state_tmp' = <<0>> /\ UNCHANGED <<state_file, savedTerm>>
       \/ /\ savePc = "write" /\ savePc' = "rename"
          /\ state_tmp' = <<savedTerm + 1>> /\ UNCHANGED <<state_file, savedTerm>>
       \/ /\ savePc = "rename" /\ savePc' = "idle"
          /\ state_file' = state_tmp /\ state_tmp' = <<>>
          /\ savedTerm' = savedTerm + 1

-----------------------------------------------------------------------------
kill ==
    /\ alive /\ kills < MaxKills
    /\ alive' = FALSE /\ kills' = kills + 1
    /\ createPc' = "idle" /\ installPc' = "idle" /\ savePc' = "idle"
    /\ UNCHANGED <<logVars, machineVars, snapshots, tmp_file, createIdx, installIdx,
                   known, state_file, state_tmp, savedTerm>>

\* The constructor of the state machine, and load for the log.
load ==
    /\ ~alive /\ alive' = TRUE
    /\ m_next_idx' = last_index(db) + 1 /\ m_start_idx' = first_index(db)
    /\ LET s == newest_snapshot
       IN  /\ machine' = IF s = 0 THEN <<>> ELSE snapshots[s]
           /\ m_last_committed_idx' = s /\ known' = s
           /\ highest' = IF s > highest THEN s ELSE highest
    /\ UNCHANGED <<db, snapshots, tmp_file, createPc, createIdx, installPc, installIdx,
                   stateVars, kills>>

StoreNext ==
    \/ Appends \/ Overwrites \/ AppliesPack \/ Flushes \/ commit
    \/ create_snapshot \/ install_snapshot \/ save_state \/ kill \/ load

-----------------------------------------------------------------------------
(***************************************************************************)
(* Killed at any point and restarted, a node never loses or misplaces what *)
(* it applied: the log has no gaps and each entry is where its index says, *)
(* the machine is the committed prefix, snapshots are whole, every entry   *)
(* ever applied is in the newest snapshot or in the log, the snapshot that *)
(* NuRaft knows can be read once no newer one is being made, and the saved *)
(* term is the one that is read back (log_store.cpp, state_machine.cpp,    *)
(* state_manager.cpp).                                                     *)
(***************************************************************************)
StoreSound ==
    /\ alive =>
        /\ installPc # "apply" => Len(machine) = m_last_committed_idx
        /\ machine = Prefix(m_last_committed_idx)
        /\ DOMAIN db = m_start_idx..(m_next_idx - 1)
        /\ log_entries(m_start_idx, m_next_idx)
             = [i \in 1..(m_next_idx - m_start_idx) |-> entry_at(m_start_idx + i - 1)]
        /\ createPc = "idle" /\ known # 0 =>
             read_logical_snp_obj(known) = <<Prefix(known)>>
        /\ Behind => kills > 0
    /\ \A i \in DOMAIN db : db[i][1] = i
    /\ \A s \in DOMAIN snapshots : snapshots[s] = Prefix(s)
    /\ \A i \in 1..highest : i <= newest_snapshot \/ entry_at(i) = Good(i)
    /\ state_file = IF savedTerm = 0 THEN <<>> ELSE <<savedTerm>>
=============================================================================
