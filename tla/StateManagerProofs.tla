------------------------- MODULE StateManagerProofs -------------------------
(***************************************************************************)
(* Proofs about StateManager, for every number of threads, nodes, terms and *)
(* configurations.  What concerns the files alone needs no assumption on   *)
(* failures or restarts; what concerns the votes needs FailStop (the        *)
(* process ends at its first storage error) and SyncedRestart (it restarts *)
(* after the directory has been written back).                             *)
(***************************************************************************)
EXTENDS StateManager, TLAPS

-----------------------------------------------------------------------------
(* The inductive invariant *)

\* At most one thread writes a file
Exclusive ==
    \A t, u \in Thread :
        /\ call[t] # NoCall
        /\ call[u] # NoCall
        /\ call[t].file = call[u].file
        => t = u

\* Where a writer is, and what it has made of its file so far
WriterInv(t) ==
    LET f == call[t].file
        v == call[t].value
    IN  call[t] # NoCall =>
        /\ status \in {"creating", "ready"}
        /\ status = "creating" => f = "config"
        /\ call[t].step = "written" => temp[f] = Record(v, TRUE, FALSE)
        /\ call[t].step = "synced" => temp[f] = Record(v, TRUE, TRUE)
        /\ call[t].step = "renamed" => path[f] = Record(v, TRUE, TRUE)
        /\ f = "config" => v.log_idx >= kept.log_idx

\* x can be read back after anything
Sound(x) == x = NoFile \/ (x.whole /\ x.synced)

\* Only what can be read back is ever in place
FileInv(f) ==
    /\ path[f] \in medium[f]
    /\ \A x \in medium[f] : Sound(x)

ConfigOf(x) == IF x = NoFile THEN InitialConfig ELSE x.value

ConfigInv ==
    /\ \A x \in medium["config"] : ConfigOf(x).log_idx >= kept.log_idx
    /\ status \in {"state", "ready"} => config.log_idx >= kept.log_idx

Inv ==
    /\ TypeOK
    /\ Exclusive
    /\ \A t \in Thread : WriterInv(t)
    /\ \A f \in File : FileInv(f)
    /\ ConfigInv
    /\ NeverRefused

-----------------------------------------------------------------------------

LEMMA InitInv == Init => Inv
BY ConstantsAssumption
   DEF Init, Inv, TypeOK, Exclusive, WriterInv, FileInv, Sound, ConfigInv, ConfigOf,
       NeverRefused, InitialState, InitialConfig, State, Config, File

\* A thread begins to write a file nobody writes
LEMMA BeginInv ==
    ASSUME Inv, NEW t \in Thread, NEW f \in File, NEW v \in ValueOf(f),
           write_checked_record(t, f, v), UNCHANGED <<files, config, kept, acted>>,
           state' \in State,
           status' \in {"creating", "ready"},
           status' = "creating" => f = "config" /\ status = "config",
           status' = "ready" => status = "ready",
           f = "config" => v.log_idx >= kept.log_idx
    PROVE  Inv'
<1> DEFINE c == [step |-> "locked", file |-> f, value |-> v]
<1>1. /\ call[t] = NoCall
      /\ \A u \in Thread : call[u] # NoCall => call[u].file # f
      /\ DOMAIN call' = Thread
      /\ call'[t] = c
      /\ \A u \in Thread \ {t} : call'[u] = call[u]
  BY DEF Inv, TypeOK, write_checked_record, Locked
<1>2. IsCall(c)
  BY DEF IsCall, Steps
<1>3. TypeOK'
  BY <1>1, <1>2 DEF Inv, TypeOK, files
<1>4. Exclusive'
  BY <1>1 DEF Inv, Exclusive
<1>5. ASSUME NEW u \in Thread PROVE WriterInv(u)'
  <2>1. CASE u = t
    <3>1. call'[t].step = "locked" /\ call'[t].file = f /\ call'[t].value = v
      BY <1>1
    <3> QED BY <2>1, <3>1 DEF WriterInv
  <2>2. CASE u # t /\ call[u] = NoCall
    BY <1>1, <2>2 DEF WriterInv
  <2>3. CASE u # t /\ call[u] # NoCall
    <3>1. WriterInv(u) /\ call'[u] = call[u] /\ status # "config"
      BY Zenon, <1>1, <2>3 DEF Inv, WriterInv
    <3>2. status' = status
      BY <3>1, <2>3 DEF WriterInv
    <3> QED BY Zenon, <3>1, <3>2 DEF WriterInv, files
  <2> QED BY <2>1, <2>2, <2>3
<1>6. \A g \in File : FileInv(g)'
  BY DEF Inv, FileInv, files
<1>7. ConfigInv' /\ NeverRefused'
  BY DEF Inv, ConfigInv, NeverRefused, files, InitialConfig
<1> QED BY <1>3, <1>4, <1>5, <1>6, <1>7 DEF Inv

\* A thread t goes on from step `from' to step `to', changing only its own file
LEMMA StepInv ==
    ASSUME Inv, NEW t \in Thread, NEW from \in Steps, NEW to \in Steps,
           Step(t, from, to), UNCHANGED <<Same, config, kept, acted>>,
           DOMAIN path' = File, DOMAIN medium' = File, DOMAIN temp' = File,
           \A f \in File \ {call[t].file} :
              path'[f] = path[f] /\ medium'[f] = medium[f] /\ temp'[f] = temp[f],
           path'[call[t].file] \in Image(call[t].file) \cup {NoFile},
           medium'[call[t].file] \subseteq Image(call[t].file) \cup {NoFile},
           temp'[call[t].file] \in Image(call[t].file) \cup {NoFile},
           to = "written" => temp'[call[t].file] = Record(call[t].value, TRUE, FALSE),
           to = "synced" => temp'[call[t].file] = Record(call[t].value, TRUE, TRUE),
           to = "renamed" => path'[call[t].file] = Record(call[t].value, TRUE, TRUE),
           FileInv(call[t].file)',
           \A x \in medium'[call[t].file] :
              x \in medium[call[t].file] \/ x = Record(call[t].value, TRUE, TRUE)
    PROVE  Inv'
<1> DEFINE f == call[t].file
<1>1. /\ call[t] # NoCall
      /\ IsCall(call[t])
      /\ WriterInv(t)
  BY DEF Inv, TypeOK, Step, NoCall, Steps
<1>2. /\ f \in File
      /\ call[t].value \in ValueOf(f)
      /\ call[t].step = from
      /\ DOMAIN call' = Thread
      /\ call'[t] = [step |-> to, file |-> f, value |-> call[t].value]
      /\ \A u \in Thread \ {t} : call'[u] = call[u]
  BY <1>1 DEF Step, IsCall, Inv, TypeOK
<1>3. /\ call'[t].file = f
      /\ call'[t].value = call[t].value
      /\ call'[t].step = to
      /\ call'[t] # NoCall
  BY <1>2 DEF NoCall, Steps
<1>4. \A u \in Thread \ {t} : call[u] # NoCall => call[u].file # f
  BY <1>1 DEF Inv, Exclusive
<1> HIDE DEF f
<1>5. TypeOK'
  <2>1. \A u \in Thread : call'[u] = NoCall \/ IsCall(call'[u])
    <3>1. IsCall(call'[t])
      BY <1>2, <1>3 DEF IsCall
    <3> QED BY <1>2, <3>1 DEF Inv, TypeOK
  <2>2. ASSUME NEW g \in File
        PROVE  /\ path'[g] \in Image(g) \cup {NoFile}
               /\ medium'[g] \subseteq Image(g) \cup {NoFile}
               /\ temp'[g] \in Image(g) \cup {NoFile}
    BY DEF Inv, TypeOK, f
  <2> QED BY <1>2, <2>1, <2>2 DEF Inv, TypeOK, Same
<1>6. Exclusive'
  BY <1>1, <1>2, <1>3, <1>4 DEF Inv, Exclusive
<1>7. ASSUME NEW u \in Thread PROVE WriterInv(u)'
  <2>1. CASE u = t
    BY Zenon, <1>1, <1>2, <1>3, <2>1 DEF WriterInv, f, Same
  <2>2. CASE u # t /\ call[u] # NoCall
    <3>1. call[u].file \in File \ {f} /\ call'[u] = call[u] /\ WriterInv(u)
      BY <1>2, <1>4, <2>2 DEF Inv, TypeOK, IsCall
    <3> QED BY Zenon, <3>1 DEF WriterInv, Same, f
  <2>3. CASE u # t /\ call[u] = NoCall
    BY <1>2, <2>3 DEF WriterInv
  <2> QED BY <2>1, <2>2, <2>3
<1>8. \A g \in File : FileInv(g)'
  BY <1>3 DEF Inv, FileInv, f
<1>9. ConfigInv'
  <2>1. f # "config" => medium'["config"] = medium["config"]
    BY DEF f, File
  <2>2. f = "config" => \A x \in medium'["config"] :
                          x \in medium["config"] \/ x = Record(call[t].value, TRUE, TRUE)
    BY Zenon DEF f
  <2>3. f = "config" =>
            ConfigOf(Record(call[t].value, TRUE, TRUE)).log_idx >= kept.log_idx
    <3>1. f = "config" => Record(call[t].value, TRUE, TRUE) \in Image("config")
      BY <1>2 DEF Image, Record
    <3> QED BY Zenon, <1>1, <3>1, ConstantsAssumption DEF WriterInv, f, ConfigOf, Record, File
  <2> QED BY Zenon, <2>1, <2>2, <2>3 DEF ConfigInv, Inv, Same
<1> QED BY <1>5, <1>6, <1>7, <1>8, <1>9 DEF Inv, NeverRefused, Same

\* The call of thread t is over, whatever has become of its temporary file, and
\* names may have reached the medium
LEMMA EndInv ==
    ASSUME Inv, NEW t \in Thread, call[t] # NoCall,
           call' = [call EXCEPT ![t] = NoCall],
           state' \in State, acted' \subseteq State,
           path' = path, DOMAIN medium' = File, DOMAIN temp' = File,
           \A f \in File : medium'[f] \subseteq medium[f] /\ path[f] \in medium'[f],
           \A f \in File : f # call[t].file => temp'[f] = temp[f],
           temp'[call[t].file] \in Image(call[t].file) \cup {NoFile},
           kept' \in Config, config' \in Config,
           call[t].file = "state" => kept' = kept /\ config' = config,
           \A x \in medium'["config"] : ConfigOf(x).log_idx >= kept'.log_idx,
           config'.log_idx >= kept'.log_idx \/ (config' = config /\ kept' = kept),
           \/ status' = status /\ status # "creating"
           \/ /\ status = "creating"
              /\ status' = "state"
              /\ config'.log_idx >= kept'.log_idx
    PROVE  Inv'
<1>1. /\ DOMAIN call' = Thread
      /\ call'[t] = NoCall
      /\ \A u \in Thread \ {t} : call'[u] = call[u]
      /\ \A u \in Thread \ {t} : call[u] # NoCall => call[u].file # call[t].file
  BY DEF Inv, TypeOK, Exclusive
<1>2. call[t].file \in File /\ WriterInv(t)
  BY DEF Inv, TypeOK, IsCall
<1>3. TypeOK'
  <2>1. \A u \in Thread : call'[u] = NoCall \/ IsCall(call'[u])
    BY <1>1 DEF Inv, TypeOK
  <2>2. ASSUME NEW f \in File
        PROVE  /\ path'[f] \in Image(f) \cup {NoFile}
               /\ medium'[f] \subseteq Image(f) \cup {NoFile}
               /\ temp'[f] \in Image(f) \cup {NoFile}
    BY DEF Inv, TypeOK
  <2> QED BY <1>1, <2>1, <2>2 DEF Inv, TypeOK
<1>4. Exclusive'
  BY <1>1 DEF Inv, Exclusive
<1>5. ASSUME NEW u \in Thread PROVE WriterInv(u)'
  <2>1. CASE call'[u] = NoCall
    BY <2>1 DEF WriterInv
  <2>2. CASE call'[u] # NoCall
    <3>1. /\ u # t
          /\ call[u] # NoCall
          /\ call'[u] = call[u]
          /\ call[u].file \in File
          /\ call[u].file # call[t].file
          /\ WriterInv(u)
      BY <1>1, <2>2 DEF Inv, TypeOK, IsCall
    <3>2. temp'[call[u].file] = temp[call[u].file]
      BY <3>1
    <3>3. status = "ready"
      BY <1>2, <3>1 DEF WriterInv, File
    <3>4. call[u].file = "config" => kept' = kept
      BY <1>2, <3>1 DEF File
    <3> QED BY Zenon, <3>1, <3>2, <3>3, <3>4 DEF WriterInv
  <2> QED BY <2>1, <2>2
<1>6. \A f \in File : FileInv(f)'
  BY DEF Inv, FileInv
<1>7. ConfigInv'
  BY DEF Inv, ConfigInv
<1> QED BY <1>3, <1>4, <1>5, <1>6, <1>7 DEF Inv, NeverRefused

\* The process has ended
LEMMA DownInv ==
    ASSUME Inv, GoDown,
           DOMAIN path' = File, DOMAIN medium' = File, DOMAIN temp' = File,
           \A f \in File :
              /\ path'[f] \in medium'[f]
              /\ medium'[f] \subseteq medium[f]
              /\ temp'[f] \in Image(f) \cup {NoFile}
    PROVE  Inv'
<1>1. TypeOK'
  <2>1. ASSUME NEW f \in File
        PROVE  /\ path'[f] \in Image(f) \cup {NoFile}
               /\ medium'[f] \subseteq Image(f) \cup {NoFile}
               /\ temp'[f] \in Image(f) \cup {NoFile}
    BY DEF Inv, TypeOK
  <2> QED BY <2>1 DEF Inv, TypeOK, GoDown
<1>2. Exclusive' /\ \A t \in Thread : WriterInv(t)'
  BY DEF GoDown, Exclusive, WriterInv
<1>3. \A f \in File : FileInv(f)'
  BY DEF Inv, FileInv
<1>4. ConfigInv' /\ NeverRefused'
  BY DEF Inv, ConfigInv, GoDown, NeverRefused, File
<1> QED BY <1>1, <1>2, <1>3, <1>4 DEF Inv

\* The exception of a failed write
LEMMA ThrowInv ==
    ASSUME Inv, NEW t \in Thread, call[t] # NoCall, Throw(t),
           UNCHANGED <<path, medium>>, DOMAIN temp' = File,
           \A f \in File : f # call[t].file => temp'[f] = temp[f],
           temp'[call[t].file] \in Image(call[t].file) \cup {NoFile}
    PROVE  Inv'
<1>1. call[t].file \in File /\ WriterInv(t) /\ \A f \in File : FileInv(f)
  BY DEF Inv, TypeOK, IsCall
<1>2. \A f \in File : temp'[f] \in Image(f) \cup {NoFile}
  BY DEF Inv, TypeOK
<1>3. CASE GoDown
  <2>1. DOMAIN path' = File /\ DOMAIN medium' = File
    BY DEF Inv, TypeOK
  <2> QED BY <1>1, <1>2, <1>3, <2>1, DownInv DEF FileInv
<1>4. CASE ~(FailStop \/ status = "creating")
  <2>1. call' = [call EXCEPT ![t] = NoCall] /\ UNCHANGED Same /\ status # "creating"
    BY <1>4 DEF Throw
  <2>2. /\ \A f \in File : medium'[f] \subseteq medium[f] /\ path[f] \in medium'[f]
        /\ DOMAIN medium' = File
        /\ state' \in State /\ acted' \subseteq State
        /\ kept' \in Config /\ config' \in Config
        /\ kept' = kept /\ config' = config /\ status' = status
        /\ \A x \in medium'["config"] : ConfigOf(x).log_idx >= kept'.log_idx
    BY <1>1, <2>1 DEF FileInv, Inv, TypeOK, Same, ConfigInv
  <2> QED BY Zenon, <1>2, <2>1, <2>2, EndInv
<1> QED BY <1>3, <1>4 DEF Throw
-----------------------------------------------------------------------------
(* The actions *)

LEMMA WritingInv ==
    ASSUME Inv, NEW t \in Thread, Writing(t)
    PROVE  Inv'
<1> DEFINE f == call[t].file
           v == call[t].value
<1>1. /\ call[t] # NoCall
      /\ IsCall(call[t])
      /\ WriterInv(t)
      /\ f \in File
      /\ FileInv(f)
      /\ call[t].step \in Steps
  <2>0. call[t].step \in Steps
    BY Zenon DEF Writing, open, write_all, sync_fd, rename, sync_directory, writeFails,
           sync_directoryFails, Step, Steps
  <2>1. call[t] # NoCall
    BY <2>0 DEF NoCall, Steps
  <2>2. IsCall(call[t])
    BY <2>1 DEF Inv, TypeOK
  <2> QED BY <2>1, <2>2 DEF Inv, IsCall
<1>2. \A w, y \in BOOLEAN : Record(v, w, y) \in Image(f)
  BY <1>1 DEF IsCall, Record, Image
<1>3. /\ DOMAIN path = File /\ DOMAIN medium = File /\ DOMAIN temp = File
      /\ \A g \in File : path[g] \in Image(g) \cup {NoFile}
      /\ \A g \in File : medium[g] \subseteq Image(g) \cup {NoFile}
      /\ \A g \in File : temp[g] \in Image(g) \cup {NoFile}
  BY DEF Inv, TypeOK
<1>4. ASSUME NEW from \in Steps, NEW to \in Steps \ {"renamed"}, Step(t, from, to),
             NEW x \in Image(f), temp' = [temp EXCEPT ![f] = x],
             to = "written" => x = Record(v, TRUE, FALSE),
             to = "synced" => x = Record(v, TRUE, TRUE),
             UNCHANGED <<Same, path, medium>>
      PROVE  Inv'
  <2>1. DOMAIN temp' = File /\ temp'[f] = x
        /\ \A g \in File \ {f} : temp'[g] = temp[g]
    BY <1>1, <1>3, <1>4
  <2>2. call'[t].file = f
    BY <1>1, <1>4 DEF Step, IsCall, Inv, TypeOK
  <2>3. FileInv(call[t].file)'
    BY <1>1, <1>4, <2>2 DEF FileInv
  <2>4. UNCHANGED <<Same, config, kept, acted>>
    BY <1>4 DEF Same
  <2> QED BY Zenon, <1>1, <1>3, <1>4, <2>1, <2>3, <2>4, StepInv
<1>5. CASE open(t)
  <2>1. /\ Step(t, "locked", "opened")
        /\ temp' = [temp EXCEPT ![f] = Record(v, FALSE, FALSE)]
        /\ UNCHANGED <<Same, path, medium>>
    BY <1>5 DEF open
  <2>2. /\ Record(v, FALSE, FALSE) \in Image(f)
        /\ "locked" \in Steps /\ "opened" \in Steps \ {"renamed"}
    BY Zenon, <1>2 DEF Steps
  <2> QED BY Zenon, <1>4, <2>1, <2>2
<1>6. CASE write_all(t)
  <2>1. /\ Step(t, "opened", "written")
        /\ temp' = [temp EXCEPT ![f] = Record(v, TRUE, FALSE)]
        /\ UNCHANGED <<Same, path, medium>>
    BY <1>6 DEF write_all
  <2>2. /\ Record(v, TRUE, FALSE) \in Image(f)
        /\ "opened" \in Steps /\ "written" \in Steps \ {"renamed"}
    BY Zenon, <1>2 DEF Steps
  <2> QED BY Zenon, <1>4, <2>1, <2>2
<1>7. CASE sync_fd(t)
  <2>1. /\ Step(t, "written", "synced")
        /\ temp' = [temp EXCEPT ![f] = Record(v, TRUE, TRUE)]
        /\ UNCHANGED <<Same, path, medium>>
    BY <1>7 DEF sync_fd
  <2>2. /\ Record(v, TRUE, TRUE) \in Image(f)
        /\ "written" \in Steps /\ "synced" \in Steps \ {"renamed"}
    BY Zenon, <1>2 DEF Steps
  <2> QED BY Zenon, <1>4, <2>1, <2>2
<1>8. CASE rename(t)
  <2>1. temp[f] = Record(v, TRUE, TRUE)
    BY Zenon, <1>1, <1>8 DEF rename, Step, WriterInv
  <2>2. /\ DOMAIN path' = File /\ DOMAIN medium' = File /\ DOMAIN temp' = File
        /\ \A g \in File \ {f} :
              path'[g] = path[g] /\ medium'[g] = medium[g] /\ temp'[g] = temp[g]
        /\ path'[f] = Record(v, TRUE, TRUE)
        /\ medium'[f] = medium[f] \cup {Record(v, TRUE, TRUE)}
        /\ temp'[f] = NoFile
    BY Zenon, <1>1, <1>3, <1>8, <2>1 DEF rename
  <2>3. call'[t].file = f
    BY <1>1, <1>8 DEF rename, Step, IsCall, Inv, TypeOK
  <2>4. FileInv(call[t].file)'
    <3>1. Sound(Record(v, TRUE, TRUE))
      BY DEF Sound, Record
    <3> HIDE DEF f, v
    <3>2. \A x \in medium'[f] : x \in medium[f] \/ x = Record(v, TRUE, TRUE)
      BY Zenon, <2>2
    <3> QED BY Zenon, <1>1, <2>2, <2>3, <3>1, <3>2 DEF FileInv
  <2>5. UNCHANGED <<Same, config, kept, acted>> /\ Step(t, "synced", "renamed")
    BY <1>8 DEF rename, Same
  <2>6. /\ path'[f] \in Image(f) \cup {NoFile}
        /\ medium'[f] \subseteq Image(f) \cup {NoFile}
        /\ temp'[f] \in Image(f) \cup {NoFile}
    <3>1. Record(v, TRUE, TRUE) \in Image(f) /\ f \in File
      BY Zenon, <1>1, <1>2
    <3> HIDE DEF f, v
    <3> QED BY Zenon, <1>3, <2>2, <3>1
  <2> QED BY Zenon, <2>2, <2>4, <2>5, <2>6, StepInv DEF Steps
<1>9. CASE sync_directory(t)
  <2>1. path[f] = Record(v, TRUE, TRUE)
    BY Zenon, <1>1, <1>9 DEF sync_directory, WriterInv
  <2>2. /\ \A g \in File : medium'[g] = {path[g]} /\ path[g] \in medium[g]
        /\ DOMAIN medium' = File
    BY <1>9 DEF sync_directory, Inv, FileInv
  <2>3. f = "state" => v \in State
    BY <1>1 DEF IsCall, ValueOf
  <2>4. f = "config" => v \in Config /\ ConfigOf(path[f]) = v
    <3>1. path[f] # NoFile
      BY Zenon, <1>1, <1>2, <2>1, ConstantsAssumption
    <3>2. ConfigOf(path[f]) = v
      BY <2>1, <3>1 DEF ConfigOf, Record
    <3> QED BY <1>1, <3>2 DEF IsCall, ValueOf
  <2>5. CASE f = "state"
    <3>1. status # "creating"
      BY <1>1, <2>5 DEF WriterInv
    <3>2. /\ acted' = acted \cup {v} /\ UNCHANGED <<status, state, config, kept>>
      BY <1>9, <2>5 DEF sync_directory, Saved
    <3>3. \A x \in medium'["config"] : ConfigOf(x).log_idx >= kept'.log_idx
      BY <2>2, <3>2 DEF Inv, ConfigInv, File
    <3>4. state' \in State /\ acted' \subseteq State /\ kept' \in Config /\ config' \in Config
      BY <2>3, <2>5, <3>2 DEF Inv, TypeOK
    <3> QED BY Zenon, <1>1, <1>3, <1>9, <2>2, <2>5, <3>1, <3>2, <3>3, <3>4, EndInv
            DEF sync_directory
  <2>6. CASE f = "config"
    <3>1. /\ kept' = IF status = "creating" THEN kept ELSE v
          /\ config' = v
          /\ status' = IF status = "creating" THEN "state" ELSE status
          /\ UNCHANGED <<state, acted>>
      BY <1>9, <2>6 DEF sync_directory, Saved, File
    <3>2. v.log_idx >= kept.log_idx /\ v.log_idx \in Nat /\ kept \in Config
      BY <1>1, <2>4, <2>6 DEF WriterInv, Config, Inv, TypeOK
    <3>3. config'.log_idx >= kept'.log_idx
      BY <3>1, <3>2 DEF Config
    <3>4. \A x \in medium'["config"] : ConfigOf(x).log_idx >= kept'.log_idx
      BY <2>2, <2>4, <2>6, <3>1, <3>3 DEF File
    <3>5. state' \in State /\ acted' \subseteq State /\ kept' \in Config /\ config' \in Config
      BY <2>4, <2>6, <3>1, <3>2 DEF Inv, TypeOK
    <3>6. path' = path /\ temp' = temp /\ call' = [call EXCEPT ![t] = NoCall]
      BY <1>9 DEF sync_directory
    <3>7. \/ status' = status /\ status # "creating"
          \/ status = "creating" /\ status' = "state" /\ config'.log_idx >= kept'.log_idx
      BY <3>1, <3>3
    <3>8. \A g \in File : medium'[g] \subseteq medium[g] /\ path[g] \in medium'[g]
      BY <2>2
    <3>9. f # "state" /\ DOMAIN temp' = File /\ temp'[f] \in Image(f) \cup {NoFile}
      BY <1>1, <1>3, <2>6, <3>6
    <3> HIDE DEF f, v
    <3> QED BY Zenon, <1>1, <2>2, <3>3, <3>4, <3>5, <3>6, <3>7, <3>8, <3>9, EndInv DEF f
  <2> QED BY <1>1, <2>5, <2>6 DEF File
<1>10. CASE writeFails(t)
  <2>1. DOMAIN temp' = File /\ temp'[f] \in Image(f) \cup {NoFile}
        /\ \A g \in File : g # f => temp'[g] = temp[g]
    BY <1>1, <1>3, <1>10 DEF writeFails
  <2> QED BY <1>1, <1>10, <2>1, ThrowInv DEF writeFails
<1>11. CASE sync_directoryFails(t)
  <2>1. UNCHANGED <<path, medium, temp>> /\ Throw(t)
    BY <1>11 DEF sync_directoryFails, files
  <2> QED BY <1>1, <1>3, <2>1, ThrowInv
<1> QED BY <1>5, <1>6, <1>7, <1>8, <1>9, <1>10, <1>11 DEF Writing
\* Nothing but the status and the values in memory changes
LEMMA MemoryInv ==
    ASSUME Inv, UNCHANGED <<call, files, kept>>,
           status' \in {"down", "config", "state", "ready"},
           \A t \in Thread : call[t] = NoCall \/ status' = status,
           state' \in State, config' \in Config, acted' \subseteq State,
           status' \in {"state", "ready"} => config'.log_idx >= kept.log_idx
    PROVE  Inv'
<1>1. TypeOK' /\ Exclusive' /\ NeverRefused'
  BY DEF Inv, TypeOK, Exclusive, NeverRefused, files
<1>2. ASSUME NEW t \in Thread PROVE WriterInv(t)'
  BY Zenon DEF Inv, WriterInv, files
<1>3. (\A f \in File : FileInv(f)') /\ ConfigInv'
  BY DEF Inv, FileInv, ConfigInv, files
<1> QED BY <1>1, <1>2, <1>3 DEF Inv

\* Init and every action keep the invariant
LEMMA NextInv == Inv /\ [Next]_vars => Inv'
<1> SUFFICES ASSUME Inv, [Next]_vars PROVE Inv'
  OBVIOUS
<1>t. TypeOK /\ ConfigInv /\ \A f \in File : FileInv(f)
  BY DEF Inv
<1>n. status \notin {"creating", "ready"} => \A t \in Thread : call[t] = NoCall
  BY Zenon DEF Inv, WriterInv
<1>1. CASE start
  BY <1>1, <1>t, <1>n, MemoryInv DEF start, TypeOK
<1>2. CASE read_state
  <2>1. path["state"] = NoFile \/ (path["state"] \in Image("state") /\ path["state"].whole)
    BY <1>t DEF TypeOK, FileInv, Sound, File
  <2>2. state' \in State /\ status' = "ready" /\ status = "state"
    BY <1>2, <1>t, <2>1 DEF read_state, InitialState, State, Image, ValueOf, TypeOK
  <2>3. config.log_idx >= kept.log_idx
    BY <1>t, <2>2 DEF ConfigInv
  <2> QED BY <1>2, <1>t, <1>n, <2>2, <2>3, MemoryInv DEF read_state, TypeOK
<1>3. CASE Respond
  <2>1. acted' \subseteq State
    BY <1>3, <1>t DEF Respond, TypeOK
  <2> QED BY <1>3, <1>t, <2>1, MemoryInv DEF Respond, TypeOK, ConfigInv
<1>4. ASSUME NEW t \in Thread, Writing(t) PROVE Inv'
  BY <1>4, WritingInv
<1>5. ASSUME NEW t \in Thread, load_config(t) PROVE Inv'
  <2>1. CASE path["config"] = NoFile
    <3>1. InitialConfig \in ValueOf("config") /\ InitialConfig.log_idx >= kept.log_idx
      BY <1>t, <2>1 DEF InitialConfig, ValueOf, Config, ConfigInv, FileInv, ConfigOf, File
    <3>2. /\ write_checked_record(t, "config", InitialConfig)
          /\ status' = "creating" /\ status = "config"
          /\ UNCHANGED <<files, config, kept, acted>>
          /\ state' \in State
      BY <1>5, <2>1, <1>t DEF load_config, TypeOK
    <3> QED BY <3>1, <3>2, BeginInv DEF File
  <2>2. CASE path["config"] # NoFile
    <3>1. /\ path["config"] \in Image("config")
          /\ path["config"].whole
          /\ ConfigOf(path["config"]).log_idx >= kept.log_idx
      BY <1>t, <2>2 DEF TypeOK, FileInv, Sound, ConfigInv, File
    <3>2. /\ config' = path["config"].value
          /\ status' = "state" /\ status = "config"
          /\ UNCHANGED <<call, files, kept, acted, state>>
      BY <1>5, <2>2, <3>1 DEF load_config
    <3>3. config' \in Config /\ config'.log_idx >= kept.log_idx
      BY <2>2, <3>1, <3>2 DEF Image, ValueOf, ConfigOf
    <3> QED BY <1>n, <1>t, <3>2, <3>3, MemoryInv DEF TypeOK
  <2> QED BY <2>1, <2>2
<1>6. ASSUME NEW t \in Thread, NEW new \in State, save_state(t, new) PROVE Inv'
  BY <1>6, BeginInv DEF save_state, ValueOf, File
<1>7. ASSUME NEW t \in Thread, NewTerm(t) PROVE Inv'
  <2>1. [term |-> state.term + 1, vote |-> NoVote] \in State
    BY <1>t DEF TypeOK, State
  <2> QED BY <1>6, <1>7, <2>1 DEF NewTerm
<1>8. ASSUME NEW t \in Thread, NEW n \in Node, GrantVote(t, n) PROVE Inv'
  <2>1. [state EXCEPT !.vote = n] \in State
    BY <1>t DEF TypeOK, State
  <2> QED BY <1>6, <1>8, <2>1 DEF GrantVote
<1>9. ASSUME NEW t \in Thread, save_config(t) PROVE Inv'
  <2> DEFINE v == [log_idx |-> config.log_idx + 1]
  <2>1. v \in ValueOf("config") /\ v.log_idx >= kept.log_idx /\ status = "ready"
    BY <1>9, <1>t DEF save_config, TypeOK, Config, ValueOf, ConfigInv
  <2> QED BY <1>9, <1>t, <2>1, BeginInv DEF save_config, TypeOK, File
<1>10. CASE Kill
  BY <1>10, <1>t, DownInv DEF Kill, TypeOK, FileInv, files
<1>11. CASE PowerLoss
  <2>1. ASSUME NEW f \in File, NEW x \in medium[f] PROVE Remains(x) = {x}
    BY <1>t, <2>1 DEF FileInv, Sound, Remains
  <2>2. UNION {Remains(x) : x \in medium["state"]} = medium["state"]
    BY <2>1 DEF File
  <2>3. UNION {Remains(x) : x \in medium["config"]} = medium["config"]
    BY <2>1 DEF File
  <2>4. ASSUME NEW f \in File, NEW y \in Remains(temp[f]) \cup {NoFile}
        PROVE  y \in Image(f) \cup {NoFile}
    <3>1. CASE temp[f] = NoFile \/ temp[f].synced
      BY <1>t, <2>4, <3>1 DEF TypeOK, Remains
    <3>2. CASE ~(temp[f] = NoFile \/ temp[f].synced)
      <4>1. temp[f] \in Image(f)
        BY <1>t, <3>2 DEF TypeOK
      <4>2. \A w \in {FALSE, temp[f].whole} :
              [temp[f] EXCEPT !.whole = w, !.synced = TRUE] \in Image(f)
        BY Zenon, <4>1 DEF Image
      <4> QED BY <2>4, <3>2, <4>2 DEF Remains
    <3> QED BY <3>1, <3>2
  <2>5. PICK s \in medium["state"], c \in medium["config"] :
          /\ path' = [f \in File |-> IF f = "state" THEN s ELSE c]
          /\ medium' = [f \in File |-> {path'[f]}]
    <3> DEFINE S == UNION {Remains(x) : x \in medium["state"]}
               C == UNION {Remains(x) : x \in medium["config"]}
    <3>1. \E s \in S, c \in C :
            /\ path' = [f \in File |-> IF f = "state" THEN s ELSE c]
            /\ medium' = [f \in File |-> {path'[f]}]
      BY <1>11 DEF PowerLoss
    <3>2. S = medium["state"] /\ C = medium["config"]
      BY <2>2, <2>3
    <3> HIDE DEF S, C
    <3> QED BY <3>1, <3>2
  <2>6. PICK p \in Remains(temp["state"]) \cup {NoFile},
             q \in Remains(temp["config"]) \cup {NoFile} :
          temp' = [f \in File |-> IF f = "state" THEN p ELSE q]
    BY <1>11 DEF PowerLoss
  <2>7. \A f \in File : temp'[f] \in Image(f) \cup {NoFile}
    BY <2>4, <2>6 DEF File
  <2>8. \A f \in File : path'[f] \in medium'[f] /\ medium'[f] \subseteq medium[f]
    BY <2>5 DEF File
  <2> QED BY <1>11, <2>5, <2>6, <2>7, <2>8, DownInv DEF PowerLoss
<1>12. CASE Writeback
  <2>1. \A f \in File : medium'[f] = {path[f]} /\ path[f] \in medium[f]
    BY <1>12, <1>t DEF Writeback, FileInv
  <2>2. TypeOK' /\ Exclusive' /\ NeverRefused'
    BY <1>12, <2>1 DEF Inv, TypeOK, Exclusive, NeverRefused, Writeback, Same
  <2>3. \A t \in Thread : WriterInv(t)'
    BY Zenon, <1>12 DEF Inv, WriterInv, Writeback, Same
  <2>4. (\A f \in File : FileInv(f)') /\ ConfigInv'
    BY <1>12, <2>1 DEF Inv, FileInv, ConfigInv, Writeback, Same, File
  <2> QED BY <2>2, <2>3, <2>4 DEF Inv
<1>13. CASE UNCHANGED vars
  <2>1. TypeOK' /\ Exclusive' /\ NeverRefused'
    BY <1>13 DEF Inv, TypeOK, Exclusive, NeverRefused, vars, files
  <2>2. \A t \in Thread : WriterInv(t)'
    BY Zenon, <1>13 DEF Inv, WriterInv, vars, files
  <2>3. (\A f \in File : FileInv(f)') /\ ConfigInv'
    BY <1>13 DEF Inv, FileInv, ConfigInv, vars, files
  <2> QED BY <2>1, <2>2, <2>3 DEF Inv
<1> QED BY <1>1, <1>2, <1>3, <1>4, <1>5, <1>7, <1>8, <1>9, <1>10, <1>11, <1>12, <1>13
        DEF Next

\* The types of the variables, in every behaviour
THEOREM TypeCorrect == Spec => []TypeOK
<1>1. Inv => TypeOK
  BY DEF Inv
<1> QED BY <1>1, InitInv, NextInv, PTL DEF Spec

\* A node never finds state.bin or config.bin damaged, whenever the process is
\* killed or loses power, and whatever write, fsync or rename fails:
\* atomic_write_file renames only what it has synced, under the file's mutex
THEOREM FilesAlwaysReadable == Spec => []NeverRefused
<1>1. Inv => NeverRefused
  BY DEF Inv
<1> QED BY <1>1, InitInv, NextInv, PTL DEF Spec

\* A configuration whose save_config has returned is never forgotten
THEOREM ConfigurationKept == Spec => []ConfigRemembered
<1>1. Inv => ConfigRemembered
  BY DEF Inv, ConfigInv, ConfigRemembered, TypeOK, Config
<1> QED BY <1>1, InitInv, NextInv, PTL DEF Spec
-----------------------------------------------------------------------------
(* Votes *)

StateOf(x) == IF x = NoFile THEN InitialState ELSE x.value

\* s remembers a: a later term, or the same with at least its vote
Covers(a, s) == a.term < s.term \/ (a.term = s.term /\ a.vote \in {NoVote, s.vote})

\* While state.bin is written nothing is promised that the old file lacks
VoteWriter(t) ==
    call[t] # NoCall /\ call[t].file = "state" =>
        /\ status = "ready"
        /\ call[t].value = state
        /\ call[t].step # "renamed" => medium["state"] = {path["state"]}

\* Whatever a restart may find covers all that others have seen of this node
VoteInv ==
    /\ \A x \in medium["state"] : \A a \in acted : Covers(a, StateOf(x))
    /\ OneVotePerTerm
    /\ StateRemembered
    /\ \A t \in Thread : VoteWriter(t)
    /\ status # "down" /\ ~Locked("state") => medium["state"] = {path["state"]}
    /\ status = "ready" /\ ~Locked("state") => state = StateOf(path["state"])

LEMMA InitVoteInv == Init => VoteInv
BY DEF Init, VoteInv, OneVotePerTerm, StateRemembered, VoteWriter, Covers, NoCall

\* One more state, which covers all before it, keeps the votes unique
LEMMA ActedGrows ==
    ASSUME TypeOK, OneVotePerTerm, NEW s \in State,
           \A a \in acted : Covers(a, s), acted' = acted \cup {s}
    PROVE  OneVotePerTerm' /\ \A a \in acted' : Covers(a, s)
<1>1. \A a \in acted' : Covers(a, s)
  BY DEF Covers
<1>2. ASSUME NEW a \in acted', NEW b \in acted', a.term = b.term,
             NoVote \notin {a.vote, b.vote}
      PROVE  a.vote = b.vote
  <2>1. a \in State /\ b \in State /\ a.term \in Nat /\ b.term \in Nat /\ s.term \in Nat
    BY DEF TypeOK, State
  <2>2. CASE a \in acted /\ b \in acted
    BY <1>2, <2>2 DEF OneVotePerTerm
  <2>3. CASE a = s \/ b = s
    BY <1>1, <1>2, <2>1, <2>3 DEF Covers
  <2> QED BY <2>2, <2>3
<1> QED BY <1>1, <1>2 DEF OneVotePerTerm

\* The end of the process
LEMMA VoteDown ==
    ASSUME VoteInv, GoDown, medium'["state"] \subseteq medium["state"]
    PROVE  VoteInv'
<1>1. status' = "down" /\ UNCHANGED acted /\ \A t \in Thread : call'[t] = NoCall
  BY DEF GoDown
<1> QED BY <1>1 DEF VoteInv, OneVotePerTerm, StateRemembered, VoteWriter

\* A step that leaves state.bin, its writer and what is promised alone
LEMMA VoteFrame ==
    ASSUME VoteInv,
           UNCHANGED <<state, acted>>,
           path'["state"] = path["state"],
           \/ medium'["state"] = medium["state"]
           \/ medium'["state"] = {path["state"]} /\ path["state"] \in medium["state"],
           \A t \in Thread :
              \/ call'[t] = call[t]
              \/ /\ call[t] = NoCall \/ call[t].file # "state"
                 /\ call'[t] = NoCall \/ call'[t].file # "state",
           \/ status' = status
           \/ /\ status' \notin {"ready", "down"} /\ status # "down"
              /\ \A t \in Thread : call[t] = NoCall \/ call[t].file # "state"
    PROVE  VoteInv'
<1>1. Locked("state")' = Locked("state")
  BY DEF Locked
<1>2. ASSUME NEW t \in Thread PROVE VoteWriter(t)'
  BY DEF VoteInv, VoteWriter
<1>3. OneVotePerTerm' /\ StateRemembered'
  BY DEF VoteInv, OneVotePerTerm, StateRemembered
<1>4. status' # "down" /\ ~Locked("state")' => medium'["state"] = {path'["state"]}
  BY <1>1 DEF VoteInv
<1>5. status' = "ready" /\ ~Locked("state")' => state' = StateOf(path'["state"])
  BY <1>1 DEF VoteInv
<1>6. \A x \in medium'["state"] : \A a \in acted' : Covers(a, StateOf(x))
  BY DEF VoteInv
<1> QED BY <1>2, <1>3, <1>4, <1>5, <1>6 DEF VoteInv
\* The steps of a thread that writes state.bin
LEMMA VoteWriting ==
    ASSUME FailStop, Inv, VoteInv, NEW t \in Thread, Writing(t)
    PROVE  VoteInv'
<1> DEFINE f == call[t].file
           v == call[t].value
<1>1. /\ call[t] # NoCall /\ IsCall(call[t]) /\ WriterInv(t) /\ f \in File
      /\ DOMAIN path = File /\ DOMAIN medium = File
      /\ \A g \in File : path[g] \in medium[g]
      /\ DOMAIN call = Thread
  <2>1. call[t].step \in Steps
    BY Zenon DEF Writing, open, write_all, sync_fd, rename, sync_directory, writeFails,
           sync_directoryFails, Step, Steps
  <2>2. call[t] # NoCall
    BY <2>1 DEF NoCall, Steps
  <2> QED BY <2>2 DEF Inv, TypeOK, IsCall, FileInv
<1>2. \A u \in Thread \ {t} : call[u] = NoCall \/ call[u].file # f
  BY <1>1 DEF Inv, Exclusive
<1>3. ASSUME Throw(t), UNCHANGED medium PROVE VoteInv'
  BY <1>3, VoteDown DEF Throw
<1>4. CASE writeFails(t) \/ sync_directoryFails(t)
  BY <1>3, <1>4 DEF writeFails, sync_directoryFails, files
<1>5. ASSUME NEW from \in Steps, NEW to \in Steps, Step(t, from, to), UNCHANGED Same,
             f = "config" \/ (to # "renamed" /\ from # "renamed"),
             path'["state"] = path["state"], medium'["state"] = medium["state"]
      PROVE  VoteInv'
  <2>1. /\ call'[t].file = f /\ call'[t].value = v /\ call'[t].step = to
        /\ call'[t] # NoCall /\ call[t].step = from
        /\ \A u \in Thread \ {t} : call'[u] = call[u]
    BY <1>1, <1>5 DEF Step, IsCall, NoCall, Steps
  <2>2. UNCHANGED <<status, state, acted>>
    BY <1>5 DEF Same
  <2>3. CASE f = "config"
    BY <1>1, <1>5, <2>1, <2>2, <2>3, VoteFrame
  <2>4. CASE f = "state"
    <3>1. Locked("state") /\ Locked("state")'
      BY <1>1, <2>1, <2>4 DEF Locked
    <3>2. ASSUME NEW u \in Thread PROVE VoteWriter(u)'
      BY <1>1, <1>5, <2>1, <2>2, <2>4 DEF VoteInv, VoteWriter
    <3>3. OneVotePerTerm' /\ StateRemembered'
      BY <2>2 DEF VoteInv, OneVotePerTerm, StateRemembered
    <3>4. \A x \in medium'["state"] : \A a \in acted' : Covers(a, StateOf(x))
      BY <1>5, <2>2 DEF VoteInv
    <3> QED BY <3>1, <3>2, <3>3, <3>4 DEF VoteInv
  <2> QED BY <1>1, <2>3, <2>4 DEF File
<1>6. CASE open(t)
  <2>1. Step(t, "locked", "opened") /\ UNCHANGED <<Same, path, medium>>
    BY <1>6 DEF open
  <2> QED BY <1>5, <2>1 DEF Steps
<1>7. CASE write_all(t)
  <2>1. Step(t, "opened", "written") /\ UNCHANGED <<Same, path, medium>>
    BY <1>7 DEF write_all
  <2> QED BY <1>5, <2>1 DEF Steps
<1>8. CASE sync_fd(t)
  <2>1. Step(t, "written", "synced") /\ UNCHANGED <<Same, path, medium>>
    BY <1>8 DEF sync_fd
  <2> QED BY <1>5, <2>1 DEF Steps
<1>9. CASE rename(t)
  <2>1. /\ Step(t, "synced", "renamed") /\ UNCHANGED Same
        /\ path' = [path EXCEPT ![f] = temp[f]]
        /\ medium' = [medium EXCEPT ![f] = @ \cup {temp[f]}]
    BY <1>9 DEF rename
  <2>2. CASE f = "config"
    <3>1. path'["state"] = path["state"] /\ medium'["state"] = medium["state"]
      BY <2>1, <2>2
    <3> QED BY <1>5, <2>1, <2>2, <3>1 DEF Steps
  <2>3. CASE f = "state"
    <3>1. temp["state"] = Record(v, TRUE, TRUE) /\ v \in State
      BY Zenon, <1>1, <2>1, <2>3 DEF WriterInv, Step, IsCall, ValueOf
    <3>2. StateOf(Record(v, TRUE, TRUE)) = v
      <4>1. Record(v, TRUE, TRUE) \in Image("state")
        BY <3>1 DEF Image, Record, ValueOf
      <4> QED BY Zenon, <4>1, ConstantsAssumption DEF StateOf, Record, File
    <3>3. /\ call'[t].file = f /\ call'[t].value = v /\ call'[t].step = "renamed"
          /\ call'[t] # NoCall
          /\ \A u \in Thread \ {t} : call'[u] = call[u]
      BY <1>1, <2>1 DEF Step, IsCall, NoCall
    <3>4. UNCHANGED <<status, state, acted>>
      BY <2>1 DEF Same
    <3>5. status = "ready" /\ v = state
      BY <1>1, <2>3 DEF VoteInv, VoteWriter
    <3>6. medium'["state"] = medium["state"] \cup {Record(v, TRUE, TRUE)}
      BY <1>1, <2>1, <2>3, <3>1 DEF File
    <3>7. \A a \in acted : Covers(a, v)
      BY <3>5 DEF VoteInv, StateRemembered, Covers
    <3>8. \A x \in medium'["state"] : \A a \in acted' : Covers(a, StateOf(x))
      BY Zenon, <3>2, <3>4, <3>6, <3>7 DEF VoteInv
    <3>9. ASSUME NEW u \in Thread PROVE VoteWriter(u)'
      BY <1>2, <2>3, <3>3, <3>4, <3>5 DEF VoteWriter
    <3>10. Locked("state")'
      BY <2>3, <3>3 DEF Locked
    <3>11. OneVotePerTerm' /\ StateRemembered'
      BY <3>4 DEF VoteInv, OneVotePerTerm, StateRemembered
    <3> QED BY <3>8, <3>9, <3>10, <3>11 DEF VoteInv
  <2> QED BY <1>1, <2>2, <2>3 DEF File
<1>10. CASE sync_directory(t)
  <2>1. /\ call' = [call EXCEPT ![t] = NoCall]
        /\ medium'["state"] = {path["state"]}
        /\ path' = path
        /\ call[t].step = "renamed"
        /\ call'[t] = NoCall
        /\ \A u \in Thread \ {t} : call'[u] = call[u]
    BY <1>1, <1>10 DEF sync_directory, File
  <2>2. CASE f = "config"
    <3>1. /\ UNCHANGED <<state, acted>>
          /\ status' = IF status = "creating" THEN "state" ELSE status
      BY <1>10, <2>2 DEF sync_directory, Saved
    <3>2. status = "creating" => \A u \in Thread : call[u] = NoCall \/ call[u].file # "state"
      BY Zenon DEF Inv, WriterInv
    <3>3. path["state"] \in medium["state"]
      BY <1>1 DEF File
    <3>4. \A u \in Thread :
            \/ call'[u] = call[u]
            \/ /\ call[u] = NoCall \/ call[u].file # "state"
               /\ call'[u] = NoCall \/ call'[u].file # "state"
      BY <2>1, <2>2
    <3>5. \/ status' = status
          \/ /\ status' \notin {"ready", "down"} /\ status # "down"
             /\ \A u \in Thread : call[u] = NoCall \/ call[u].file # "state"
      BY <3>1, <3>2
    <3> QED BY <2>1, <3>1, <3>3, <3>4, <3>5, VoteFrame
  <2>3. CASE f = "state"
    <3>1. path["state"] = Record(v, TRUE, TRUE) /\ v \in State
      BY Zenon, <1>1, <2>1, <2>3 DEF WriterInv, IsCall, ValueOf
    <3>2. StateOf(path["state"]) = v
      <4>1. Record(v, TRUE, TRUE) \in Image("state")
        BY <3>1 DEF Image, Record, ValueOf
      <4>2. path["state"] # NoFile
        BY Zenon, <3>1, <4>1, ConstantsAssumption DEF File
      <4>3. path["state"].value = v
        BY <3>1 DEF Record
      <4> QED BY <4>2, <4>3 DEF StateOf
    <3>3. acted' = acted \cup {v} /\ UNCHANGED <<status, state>>
      BY <1>10, <2>3 DEF sync_directory, Saved
    <3>4. status = "ready" /\ v = state
      BY <1>1, <2>3 DEF VoteInv, VoteWriter
    <3>5. \A a \in acted : Covers(a, v)
      BY <3>4 DEF VoteInv, StateRemembered, Covers
    <3>6. OneVotePerTerm' /\ \A a \in acted' : Covers(a, v)
      BY <3>1, <3>3, <3>5, ActedGrows DEF Inv, VoteInv
    <3>7. StateRemembered'
      BY <3>3, <3>4, <3>6 DEF StateRemembered, Covers
    <3>8. \A u \in Thread : call'[u] = NoCall \/ call'[u].file # "state"
      BY <1>2, <2>1, <2>3
    <3>9. ~Locked("state")' /\ \A u \in Thread : VoteWriter(u)'
      BY <3>8 DEF Locked, VoteWriter
    <3> QED BY <2>1, <3>2, <3>3, <3>4, <3>6, <3>7, <3>9 DEF VoteInv
  <2> QED BY <1>1, <2>2, <2>3 DEF File
<1> QED BY <1>4, <1>6, <1>7, <1>8, <1>9, <1>10 DEF Writing
LEMMA NextVoteInv ==
    ASSUME FailStop, SyncedRestart
    PROVE  Inv /\ VoteInv /\ [Next]_vars => VoteInv'
<1> SUFFICES ASSUME Inv, VoteInv, [Next]_vars PROVE VoteInv'
  OBVIOUS
<1>t. TypeOK /\ \A f \in File : FileInv(f)
  BY DEF Inv
<1>n. status \notin {"creating", "ready"} => \A t \in Thread : call[t] = NoCall
  BY Zenon DEF Inv, WriterInv
<1>1. CASE start
  <2>1. /\ status' = "config" /\ status = "down" /\ medium["state"] = {path["state"]}
        /\ UNCHANGED <<call, path, medium, acted, state>>
    BY <1>1 DEF start, MayRestart, files, File
  <2> QED BY <1>n, <2>1
          DEF VoteInv, OneVotePerTerm, StateRemembered, VoteWriter
<1>2. CASE read_state
  <2>1. path["state"] = NoFile \/ path["state"].whole
    BY <1>t DEF FileInv, Sound, File
  <2>2. /\ state' = StateOf(path["state"]) /\ status' = "ready" /\ status = "state"
        /\ UNCHANGED <<call, path, medium, acted>>
    BY <1>2, <2>1 DEF read_state, StateOf, files
  <2>3. \A t \in Thread : call'[t] = NoCall /\ call[t] = NoCall
    BY <1>n, <2>2
  <2>4. medium["state"] = {path["state"]}
    BY <2>2, <2>3 DEF VoteInv, Locked
  <2>5. StateRemembered'
    BY <2>2, <2>4 DEF VoteInv, StateRemembered, Covers
  <2>6. OneVotePerTerm' /\ \A t \in Thread : VoteWriter(t)'
    BY <2>2, <2>3 DEF VoteInv, OneVotePerTerm, VoteWriter
  <2>7. \A x \in medium'["state"] : \A a \in acted' : Covers(a, StateOf(x))
    BY <2>2 DEF VoteInv
  <2> QED BY <2>2, <2>4, <2>5, <2>6, <2>7 DEF VoteInv
<1>3. CASE Respond
  <2>1. /\ status = "ready" /\ ~Locked("state") /\ acted' = acted \cup {state}
        /\ UNCHANGED <<status, state, call, path, medium>>
    BY <1>3 DEF Respond, files
  <2>2. /\ medium["state"] = {path["state"]} /\ state = StateOf(path["state"])
        /\ \A a \in acted : Covers(a, state)
    BY <2>1 DEF VoteInv, StateRemembered, Covers
  <2>3. OneVotePerTerm' /\ \A a \in acted' : Covers(a, state)
    BY <1>t, <2>1, <2>2, ActedGrows DEF TypeOK, VoteInv
  <2>4. StateRemembered'
    BY <2>1, <2>3 DEF StateRemembered, Covers
  <2>5. \A t \in Thread : VoteWriter(t)'
    BY <2>1 DEF VoteInv, VoteWriter
  <2> QED BY <2>1, <2>2, <2>3, <2>4, <2>5 DEF VoteInv
<1>4. ASSUME NEW t \in Thread, Writing(t) PROVE VoteInv'
  BY <1>4, VoteWriting
<1>5. ASSUME NEW t \in Thread, load_config(t) PROVE VoteInv'
  <2>1. /\ status = "config"
        /\ status' \in {"creating", "state", "refused"}
        /\ UNCHANGED <<state, acted, path, medium>>
        /\ \A u \in Thread : call[u] = NoCall
    BY <1>5, <1>n DEF load_config, files
  <2>2. \A u \in Thread : call'[u] = call[u] \/ call'[u].file # "state"
    BY <1>5, <1>t DEF load_config, write_checked_record, TypeOK
  <2> QED BY <2>1, <2>2, VoteFrame
<1>6. ASSUME NEW t \in Thread, NEW new \in State, save_state(t, new), Covers(state, new)
      PROVE  VoteInv'
  <2> DEFINE c == [step |-> "locked", file |-> "state", value |-> new]
  <2>1. /\ status = "ready" /\ state' = new /\ ~Locked("state") /\ call'[t] = c
        /\ \A u \in Thread \ {t} : call'[u] = call[u]
        /\ UNCHANGED <<status, path, medium, acted>>
    BY <1>6, <1>t DEF save_state, write_checked_record, files, TypeOK
  <2>2. call'[t].step = "locked" /\ call'[t].file = "state" /\ call'[t].value = new
        /\ call'[t] # NoCall
    BY <2>1 DEF NoCall
  <2> HIDE DEF c
  <2>3. medium["state"] = {path["state"]}
    BY <2>1 DEF VoteInv
  <2>4. ASSUME NEW a \in acted PROVE Covers(a, new)
    <3>1. Covers(a, state)
      BY <2>1 DEF VoteInv, StateRemembered, Covers
    <3>2. a.term \in Nat /\ state.term \in Nat /\ new.term \in Nat
      BY <1>t DEF TypeOK, State
    <3> QED BY <1>6, <3>1, <3>2 DEF Covers
  <2>5. StateRemembered'
    BY <2>1, <2>4 DEF StateRemembered, Covers
  <2>6. ASSUME NEW u \in Thread PROVE VoteWriter(u)'
    <3>1. CASE u = t
      BY <2>1, <2>2, <2>3, <3>1 DEF VoteWriter
    <3>2. CASE u # t
      BY <2>1, <3>2 DEF Locked, VoteWriter
    <3> QED BY <3>1, <3>2
  <2>7. Locked("state")'
    BY <2>2 DEF Locked
  <2>8. OneVotePerTerm' /\ \A x \in medium'["state"] : \A a \in acted' : Covers(a, StateOf(x))
    BY <2>1 DEF VoteInv, OneVotePerTerm
  <2> QED BY <2>5, <2>6, <2>7, <2>8 DEF VoteInv
<1>7. ASSUME NEW t \in Thread, NewTerm(t) PROVE VoteInv'
  <2> DEFINE new == [term |-> state.term + 1, vote |-> NoVote]
  <2>1. new \in State /\ Covers(state, new)
    BY <1>t DEF TypeOK, State, Covers
  <2> QED BY <1>6, <1>7, <2>1 DEF NewTerm
<1>8. ASSUME NEW t \in Thread, NEW n \in Node, GrantVote(t, n) PROVE VoteInv'
  <2> DEFINE new == [state EXCEPT !.vote = n]
  <2>1. new \in State /\ Covers(state, new)
    BY <1>8, <1>t DEF GrantVote, TypeOK, State, Covers
  <2> QED BY <1>6, <1>8, <2>1 DEF GrantVote
<1>9. ASSUME NEW t \in Thread, save_config(t) PROVE VoteInv'
  <2>1. /\ UNCHANGED <<status, state, acted, path, medium>>
        /\ call[t] = NoCall
        /\ call'[t].file # "state"
        /\ \A u \in Thread \ {t} : call'[u] = call[u]
    BY <1>9, <1>t DEF save_config, write_checked_record, files, TypeOK
  <2> QED BY <2>1, VoteFrame
<1>10. CASE Kill
  BY <1>10, VoteDown DEF Kill, files
<1>11. CASE PowerLoss
  <2>1. UNION {Remains(x) : x \in medium["state"]} = medium["state"]
    BY Zenon, <1>t DEF FileInv, Sound, Remains, File
  <2>2. medium'["state"] \subseteq UNION {Remains(x) : x \in medium["state"]}
    BY <1>11 DEF PowerLoss, File
  <2>3. medium'["state"] \subseteq medium["state"]
    BY <2>1, <2>2
  <2> QED BY <1>11, <2>3, VoteDown DEF PowerLoss
<1>12. CASE Writeback
  <2>1. /\ UNCHANGED <<status, state, acted, path, call>>
        /\ medium'["state"] = {path["state"]} /\ path["state"] \in medium["state"]
    BY <1>12, <1>t DEF Writeback, Same, FileInv, File
  <2> QED BY <2>1, VoteFrame
<1>13. CASE UNCHANGED vars
  BY <1>13, VoteFrame DEF vars, files
<1> QED BY <1>1, <1>2, <1>3, <1>4, <1>5, <1>7, <1>8, <1>9, <1>10, <1>11, <1>12, <1>13
        DEF Next

\* However often the process is killed and the machine loses power, this node
\* never votes for two candidates in one term: save_state returns only when the
\* vote is on the medium, and NuRaft answers only after it has returned
THEOREM VotesAreUnique ==
    ASSUME FailStop, SyncedRestart
    PROVE  Spec => []OneVotePerTerm
<1>1. VoteInv => OneVotePerTerm
  BY DEF VoteInv
<1> QED BY <1>1, InitInv, NextInv, InitVoteInv, NextVoteInv, PTL DEF Spec

\* A running node knows every term and vote it has let others see
THEOREM StateIsRemembered ==
    ASSUME FailStop, SyncedRestart
    PROVE  Spec => []StateRemembered
<1>1. VoteInv => StateRemembered
  BY DEF VoteInv
<1> QED BY <1>1, InitInv, NextInv, InitVoteInv, NextVoteInv, PTL DEF Spec
=============================================================================
