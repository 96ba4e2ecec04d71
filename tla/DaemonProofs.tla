----------------------------- MODULE DaemonProofs -----------------------------
(***************************************************************************)
(* Proofs about Daemon and Desktop, for any units, commands and setups,    *)
(* and every mishap: what one daemon at a time keeps true of the state     *)
(* file and of the socket path, and that it does what Durability says.     *)
(***************************************************************************)
EXTENDS Desktop, TLAPS

-----------------------------------------------------------------------------
(* The inductive invariant *)

\* The history: two daemons that run make it mixed, and one that no other has
\* run next to runs alone.
History ==
  /\ alone \subseteq Running
  /\ \A p \in alone : Running = {p}
  /\ ~mixed => alone = Running /\ \A p, q \in Running : p = q

\* Only a running daemon saves, and whose handler saves has its edit in memory and
\* has not been answered.
Saves ==
  \A p \in Daemons :
    /\ saving[p] # "no" => p \in Running
    /\ saver[p] \in Edits =>
         /\ saver[p] \in known[p] /\ saving[p] # "no"
         /\ cli[saver[p]] = "post" /\ server[saver[p]] = p

\* A command is connected just as long as it waits.
Connected == \A e \in Edits : cli[e] \in CliWaits <=> server[e] \in Daemons

\* A save that no other disturbs has a file of its own to rename.
Undisturbed ==
  \A p \in Daemons :
    /\ saving[p] = "writing" => tmp # Missing
    /\ saving[p] = "written" => tmp = known[p]

\* Memory has what the file has, ...
FileIsKnown ==
  file # Missing => \A p \in Running : file \subseteq known[p]

\* ... and the file has what memory has, unless a save is under way or has failed.
KnownIsSaved ==
  \A p \in Running : saving[p] = "no" => known[p] \subseteq (file \cup risky)

\* What is answered, or is about to be, is in the file or is known to be at risk.
DoneIsSaved == \A e \in Edits : cli[e] \in {"done", "ok"} => e \in file \cup risky

\* What one daemon at a time keeps true.
OneAtATime ==
  ~mixed =>
    /\ file # Garbled
    /\ Undisturbed
    /\ FileIsKnown
    /\ KnownIsSaved
    /\ DoneIsSaved

\* A daemon that has listened, and is alone, has the path.
HasPath == \A p \in alone : proc[p] \in {"chmod", "serving"} => path = p

DaemonInv == DaemonTypeOK /\ History /\ Saves /\ Connected /\ OneAtATime /\ HasPath

-----------------------------------------------------------------------------
(* Types *)

\* Initially the types are right.
LEMMA DaemonTypeInit == DaemonInit => DaemonTypeOK
<1> SUFFICES ASSUME DaemonInit PROVE DaemonTypeOK
  OBVIOUS
<1>1. proc \in [Daemons -> Phases] /\ cli \in [Edits -> CliSteps]
  BY DEF DaemonInit, Phases, CliSteps
<1>2. tmp \in Contents /\ file \in Contents
  BY DEF DaemonInit, Contents
<1>3. mixed \in BOOLEAN
  BY DEF DaemonInit
<1> QED
  BY <1>1, <1>2, <1>3 DEF DaemonInit, DaemonTypeOK

\* A step of a process keeps the types.
LEMMA DaemonTypeProc ==
  ASSUME DaemonTypeOK, NEW p \in Daemons, ProcStep(p)
  PROVE  DaemonTypeOK'
<1> USE DaemonAssumption
    DEF DaemonTypeOK, Phases, Up, Starting, Answering, Fallen, Contents, CliSteps,
        fileVars, storeVars, cliVars, historyVars, Become
<1>1. CASE Begin(p)
  <2>1. file # Garbled => Loaded \in SUBSET Edits
    BY DEF Loaded
  <2>2. mixed' \in BOOLEAN
    BY <1>1 DEF Begin
  <2> QED
    BY <1>1, <2>1, <2>2 DEF Begin
<1>2. CASE DropRoutes(p) \/ BackgroundSave(p)
  BY <1>2 DEF DropRoutes, BackgroundSave, StartSave
<1>3. CASE Stat(p) \/ Remove(p) \/ Listen(p) \/ Chmod(p) \/ Shutdown(p)
  BY <1>3 DEF Stat, Remove, Listen, Chmod, Shutdown
<1>4. CASE StartFails(p)
  BY <1>4 DEF StartFails, Ends
<1>5. CASE Exit(p)
  BY <1>5 DEF Exit, Ends
<1>6. CASE Crash(p)
  BY <1>6 DEF Crash, Ends
<1>7. CASE WriteTemp(p)
  BY <1>7 DEF WriteTemp
<1>8. CASE Rename(p)
  BY <1>8 DEF Rename, EndSave
<1>9. CASE SaveFails(p)
  BY <1>9 DEF SaveFails, EndSave
<1> QED
  BY <1>1, <1>2, <1>3, <1>4, <1>5, <1>6, <1>7, <1>8, <1>9
  DEF ProcStep, StartStep, SaveStep

\* So does a step of a command.
LEMMA DaemonTypeCli ==
  ASSUME DaemonTypeOK, NEW e \in Edits, CliStep(e)
  PROVE  DaemonTypeOK'
<1> USE DaemonAssumption
    DEF DaemonTypeOK, Contents, CliSteps, fileVars, storeVars, cliVars, historyVars
<1>1. CASE Check(e) \/ Post(e)
  BY <1>1 DEF Check, Post, Connect
<1>2. CASE Checked(e) \/ Answer(e)
  BY <1>2 DEF Checked, Answer, Answered
<1>3. CASE Handle(e)
  BY <1>3 DEF Handle, StartSave
<1>4. CASE Again(e)
  BY <1>4 DEF Again
<1> QED
  BY <1>1, <1>2, <1>3, <1>4 DEF CliStep

-----------------------------------------------------------------------------
(* Which daemons run *)

\* The steps that end a process.
Ending(p) == StartFails(p) \/ Exit(p) \/ Crash(p)

\* A process that ends runs no more.
LEMMA EndingRuns ==
  ASSUME DaemonTypeOK, NEW p \in Daemons, Ending(p)
  PROVE  /\ Running' = Running \ {p}
         /\ alone' = alone \ {p}
         /\ UNCHANGED <<fileVars, mixed>>
         /\ known' = [known EXCEPT ![p] = {}]
         /\ saving' = [saving EXCEPT ![p] = "no"]
         /\ saver' = [saver EXCEPT ![p] = NoEdit]
         /\ \A e \in Edits : IF server[e] = p
                            THEN cli'[e] = "err" /\ server'[e] = NoDaemon
                            ELSE cli'[e] = cli[e] /\ server'[e] = server[e]
<1>1. PICK phase \in Fallen \cup {"down"} : Ends(p, phase)
  BY DEF Ending, StartFails, Exit, Crash, Fallen
<1>2. Running' = Running \ {p}
  BY <1>1 DEF Ends, Become, Running, DaemonTypeOK, Up, Starting, Answering, Fallen
<1> QED
  BY <1>1, <1>2 DEF Ends, DaemonTypeOK

\* The other steps, but for Begin, change nothing of who runs.
LEMMA OthersRun ==
  ASSUME DaemonTypeOK, Saves, NEW p \in Daemons, ProcStep(p), ~Begin(p), ~Ending(p)
  PROVE  Running' = Running /\ p \in Running /\ UNCHANGED historyVars
<1> USE DEF DaemonTypeOK, Up, Starting, Answering, Running, historyVars, Become
<1>1. CASE DropRoutes(p) \/ Stat(p) \/ Remove(p) \/ Listen(p) \/ Chmod(p) \/ Shutdown(p)
  BY <1>1 DEF DropRoutes, Stat, Remove, Listen, Chmod, Shutdown
<1>2. CASE BackgroundSave(p)
  BY <1>2 DEF BackgroundSave
<1>3. CASE SaveStep(p)
  BY <1>3 DEF SaveStep, WriteTemp, Rename, SaveFails, EndSave, Saves
<1> QED
  BY <1>1, <1>2, <1>3 DEF ProcStep, StartStep, Ending

\* Nor does a command.
LEMMA CliRuns ==
  ASSUME NEW e \in Edits, CliStep(e)
  PROVE  Running' = Running /\ UNCHANGED <<proc, path, historyVars>>
<1>1. UNCHANGED <<proc, path, historyVars>>
  BY DEF CliStep, Check, Post, Connect, Checked, Answer, Answered, Handle, Again
<1> QED
  BY <1>1 DEF Running

-----------------------------------------------------------------------------
(* History, Saves and HasPath *)

\* A step of a process keeps the history true.
LEMMA HistoryProc ==
  ASSUME DaemonInv, NEW p \in Daemons, ProcStep(p)
  PROVE  History'
<1> USE DEF DaemonInv, History
<1>1. CASE Begin(p)
  <2>1. CASE file = Garbled
    <3>1. Running' = Running
      BY <1>1, <2>1
      DEF Begin, Become, Running, DaemonTypeOK, Up, Starting, Answering, Fallen
    <3> QED
      BY <1>1, <2>1, <3>1 DEF Begin, historyVars
  <2>2. CASE file # Garbled
    <3>1. Running' = Running \cup {p}
      BY <1>1, <2>2 DEF Begin, Become, Running, DaemonTypeOK, Up, Starting
    <3> QED
      BY <1>1, <2>2, <3>1 DEF Begin
  <2> QED
    BY <2>1, <2>2
<1>2. CASE Ending(p)
  BY <1>2, EndingRuns
<1>3. CASE ~Begin(p) /\ ~Ending(p)
  BY <1>3, OthersRun DEF historyVars
<1> QED
  BY <1>1, <1>2, <1>3

\* A step of a process keeps true what is said of saves.
LEMMA SavesProc ==
  ASSUME DaemonInv, NEW p \in Daemons, ProcStep(p)
  PROVE  Saves'
<1> USE DaemonAssumption DEF DaemonInv, DaemonTypeOK, Saves
<1>1. CASE Begin(p)
  <2>1. p \notin Running /\ saving[p] = "no"
    BY <1>1 DEF Begin, Running, Up, Starting, Answering, Fallen
  <2>2. Running \subseteq Running'
    BY <1>1, <2>1 DEF Begin, Become, Running
  <2> QED
    BY <1>1, <2>1, <2>2 DEF Begin, cliVars
<1>2. CASE Ending(p)
  BY <1>2, EndingRuns
<1>3. CASE ~Begin(p) /\ ~Ending(p)
  <2>1. Running' = Running /\ p \in Running
    BY <1>3, OthersRun
  <2>2. CASE DropRoutes(p) \/ BackgroundSave(p)
    BY <2>1, <2>2 DEF DropRoutes, BackgroundSave, StartSave, cliVars
  <2>3. CASE Stat(p) \/ Remove(p) \/ Listen(p) \/ Chmod(p) \/ Shutdown(p)
    BY <2>1, <2>3 DEF Stat, Remove, Listen, Chmod, Shutdown, storeVars, cliVars
  <2>4. CASE WriteTemp(p)
    BY <2>1, <2>4 DEF WriteTemp, cliVars
  <2>5. CASE Rename(p) \/ SaveFails(p)
    BY <2>1, <2>5 DEF Rename, SaveFails, EndSave
  <2> QED
    BY <1>3, <2>2, <2>3, <2>4, <2>5 DEF ProcStep, StartStep, SaveStep, Ending
<1> QED
  BY <1>1, <1>2, <1>3

\* Only a daemon that runs changes the path, so one that is alone keeps it.
LEMMA PathProc ==
  ASSUME DaemonInv, NEW p \in Daemons, ProcStep(p)
  PROVE  HasPath'
<1> USE DEF DaemonInv, DaemonTypeOK, History, HasPath
<1>1. CASE Begin(p)
  BY <1>1 DEF Begin, Become, historyVars, Fallen, Running, Up, Starting, Answering
<1>2. CASE Ending(p)
  <2>1. p \in Running
    BY <1>2 DEF Ending, StartFails, Exit, Crash, Running, Up, Starting, Answering
  <2> QED
    BY <1>2, <2>1, EndingRuns
<1>3. CASE ~Begin(p) /\ ~Ending(p)
  <2>1. alone' = alone /\ p \in Running
    BY <1>3, OthersRun DEF historyVars
  <2>2. CASE UNCHANGED <<proc, path>>
    BY <2>1, <2>2
  <2>3. CASE DropRoutes(p) \/ Stat(p) \/ Remove(p) \/ Listen(p) \/ Chmod(p) \/ Shutdown(p)
    BY <2>1, <2>3 DEF DropRoutes, Stat, Remove, Listen, Chmod, Shutdown, Become
  <2> QED
    BY <1>3, <2>2, <2>3
    DEF ProcStep, StartStep, SaveStep, Ending, BackgroundSave, WriteTemp, Rename,
        SaveFails, EndSave
<1> QED
  BY <1>1, <1>2, <1>3

\* A step of a process keeps waiting commands connected.
LEMMA ConnectedProc ==
  ASSUME DaemonInv, NEW p \in Daemons, ProcStep(p)
  PROVE  Connected'
<1> USE DaemonAssumption DEF DaemonInv, DaemonTypeOK, Connected, CliWaits
<1>1. CASE Ending(p)
  BY <1>1, EndingRuns
<1>2. CASE Rename(p) \/ SaveFails(p)
  BY <1>2 DEF Rename, SaveFails, EndSave, Saves
<1>3. CASE UNCHANGED cliVars
  BY <1>3 DEF cliVars
<1> QED
  BY <1>1, <1>2, <1>3
  DEF ProcStep, StartStep, SaveStep, Ending, Begin, DropRoutes, BackgroundSave, Stat,
      Remove, Listen, Chmod, Shutdown, WriteTemp

\* A command keeps all four.
LEMMA CliKeeps ==
  ASSUME DaemonInv, NEW e \in Edits, CliStep(e)
  PROVE  History' /\ Saves' /\ Connected' /\ HasPath'
<1> USE DEF DaemonInv, DaemonTypeOK
<1>1. Running' = Running /\ UNCHANGED <<proc, path, historyVars>>
  BY CliRuns
<1>2. History' /\ HasPath'
  BY <1>1 DEF History, HasPath, historyVars
<1>3. CASE Check(e) \/ Post(e)
  <2>1. Connected'
    BY <1>3, DaemonAssumption DEF Check, Post, Connect, Connected, CliWaits
  <2> QED
    BY <1>1, <1>2, <1>3, <2>1 DEF Check, Post, Connect, Saves, storeVars
<1>4. CASE Checked(e) \/ Answer(e)
  <2>1. Connected'
    BY <1>4, DaemonAssumption DEF Checked, Answer, Answered, Connected, CliWaits
  <2> QED
    BY <1>1, <1>2, <1>4, <2>1 DEF Checked, Answer, Answered, Saves, storeVars
<1>5. CASE Handle(e)
  <2>1. server[e] \in Running
    BY <1>5 DEF Handle, Running, Up, Answering, Starting, Connected, CliWaits
  <2>2. Connected'
    BY <1>5, <2>1 DEF Handle, Connected, CliWaits, Running
  <2>3. Saves'
    BY <1>1, <1>5, <2>1, DaemonAssumption
    DEF Saves, Handle, StartSave, storeVars, Running
  <2> QED
    BY <1>2, <2>2, <2>3
<1>6. CASE Again(e)
  BY <1>1, <1>2, <1>6 DEF Again, Saves, Connected, CliWaits, storeVars
<1> QED
  BY <1>3, <1>4, <1>5, <1>6 DEF CliStep

-----------------------------------------------------------------------------
(* One daemon at a time *)

\* A daemon comes up: it has what is in the file.
LEMMA BeginAlone ==
  ASSUME DaemonInv, NEW p \in Daemons, Begin(p)
  PROVE  OneAtATime'
<1> SUFFICES ASSUME ~mixed'
             PROVE  (file # Garbled /\ Undisturbed /\ FileIsKnown /\ KnownIsSaved /\ DoneIsSaved)'
  BY DEF OneAtATime
<1> USE DaemonAssumption DEF DaemonInv, DaemonTypeOK
<1>1. ~mixed
  BY DEF Begin, historyVars
<1>2. file # Garbled /\ UNCHANGED <<saving, tmp, file, risky, cli>>
  BY <1>1 DEF OneAtATime, Begin, fileVars, cliVars
<1>3. Running = {} /\ known' = [known EXCEPT ![p] = Loaded] /\ Become(p, "loaded")
  BY <1>2 DEF Begin
<1>4. Running' = {p}
  BY <1>3 DEF Running, Become, Up, Starting
<1>5. Undisturbed'
  BY <1>2, <1>3 DEF Undisturbed, Saves
<1>6. FileIsKnown' /\ KnownIsSaved'
  BY <1>2, <1>3, <1>4 DEF FileIsKnown, KnownIsSaved, Loaded
<1> QED
  BY <1>1, <1>2, <1>5, <1>6 DEF OneAtATime, DoneIsSaved

\* A daemon ends, at whatever step: the file stays as it is.
LEMMA EndAlone ==
  ASSUME DaemonInv, NEW p \in Daemons, Ending(p)
  PROVE  OneAtATime'
<1> USE DEF DaemonInv, DaemonTypeOK, fileVars
<1>1. Undisturbed => Undisturbed'
  BY EndingRuns DEF Undisturbed
<1>2. FileIsKnown => FileIsKnown'
  BY EndingRuns DEF FileIsKnown, Running
<1>3. KnownIsSaved => KnownIsSaved'
  BY EndingRuns DEF KnownIsSaved, Running
<1>4. DoneIsSaved => DoneIsSaved'
  BY EndingRuns DEF DoneIsSaved
<1> QED
  BY <1>1, <1>2, <1>3, <1>4, EndingRuns DEF OneAtATime

\* A save: what is renamed is what is in memory, so nothing that the file had goes.
LEMMA SaveAlone ==
  ASSUME DaemonInv, NEW p \in Daemons, SaveStep(p)
  PROVE  OneAtATime'
<1> USE DaemonAssumption DEF DaemonInv, DaemonTypeOK, Contents
<1>1. ~Begin(p) /\ ~Ending(p) /\ ProcStep(p) /\ p \in Running
  <2>1. p \in Running
    BY DEF SaveStep, WriteTemp, Rename, SaveFails, Saves
  <2> QED
    BY <2>1
    DEF ProcStep, SaveStep, WriteTemp, Rename, SaveFails, EndSave, Begin, Ending,
        StartFails, Exit, Crash, Ends, Become, Running, Up, Starting, Answering, Fallen
<1>2. Running' = Running /\ UNCHANGED mixed
  BY <1>1, OthersRun DEF historyVars
<1> SUFFICES ASSUME ~mixed
             PROVE  (file # Garbled /\ Undisturbed /\ FileIsKnown /\ KnownIsSaved /\ DoneIsSaved)'
  BY <1>2 DEF OneAtATime
<1>3. /\ file # Garbled
      /\ Undisturbed /\ FileIsKnown /\ KnownIsSaved /\ DoneIsSaved
  BY DEF OneAtATime
<1>4. \A q \in Daemons \ {p} : saving[q] = "no" /\ q \notin Running
  BY <1>1 DEF History, Saves, Running
<1>5. CASE WriteTemp(p)
  <2>1. tmp' = known[p] /\ saving' = [saving EXCEPT ![p] = "written"]
    BY <1>3, <1>4, <1>5 DEF WriteTemp, Undisturbed
  <2>2. UNCHANGED <<file, known, risky, cli>>
    BY <1>3, <1>5 DEF WriteTemp, Undisturbed, cliVars
  <2>3. Undisturbed'
    BY <1>4, <2>1, <2>2 DEF Undisturbed
  <2>4. FileIsKnown' /\ KnownIsSaved'
    BY <1>2, <1>3, <1>4, <2>1, <2>2 DEF FileIsKnown, KnownIsSaved
  <2> QED
    BY <1>3, <2>2, <2>3, <2>4 DEF DoneIsSaved
<1>6. CASE Rename(p)
  <2>1. file' = known[p] /\ risky' = risky \ known[p] /\ UNCHANGED known
    BY <1>3, <1>6 DEF Rename, EndSave, Undisturbed
  <2>2. saving' = [saving EXCEPT ![p] = "no"]
    BY <1>6 DEF Rename, EndSave
  <2>3. Undisturbed' /\ FileIsKnown' /\ KnownIsSaved'
    <3>1. Undisturbed'
      BY <1>4, <2>2 DEF Undisturbed
    <3>2. \A q \in Running' : q = p
      BY <1>2, <1>4 DEF Running
    <3> QED
      BY <2>1, <3>1, <3>2 DEF FileIsKnown, KnownIsSaved
  <2>4. DoneIsSaved'
    <3> SUFFICES ASSUME NEW e \in Edits, cli'[e] \in {"done", "ok"}
                 PROVE  e \in file' \cup risky'
      BY DEF DoneIsSaved
    <3>1. CASE e = saver[p]
      BY <2>1, <3>1 DEF Saves
    <3>2. CASE e # saver[p]
      <4>1. e \in file \cup risky
        BY <1>3, <1>6, <3>2 DEF DoneIsSaved, Rename, EndSave
      <4>2. e \in file => e \in known[p]
        BY <1>1, <1>3 DEF FileIsKnown
      <4> QED
        BY <2>1, <4>1, <4>2
    <3> QED
      BY <3>1, <3>2
  <2> QED
    BY <2>1, <2>3, <2>4
<1>7. CASE SaveFails(p)
  <2>1. risky' = risky \cup (known[p] \ file) /\ UNCHANGED <<file, tmp, known>>
    BY <1>7 DEF SaveFails, EndSave
  <2>2. saving' = [saving EXCEPT ![p] = "no"]
    BY <1>7 DEF SaveFails, EndSave
  <2>3. Undisturbed' /\ FileIsKnown' /\ KnownIsSaved'
    BY <1>2, <1>3, <1>4, <2>1, <2>2 DEF Undisturbed, FileIsKnown, KnownIsSaved
  <2>4. DoneIsSaved'
    BY <1>3, <1>7, <2>1 DEF DoneIsSaved, SaveFails, EndSave, Saves
  <2> QED
    BY <1>3, <2>1, <2>3, <2>4
<1> QED
  BY <1>5, <1>6, <1>7 DEF SaveStep

\* The beginning of a save, with or without another edit.
LEMMA StartSaveAlone ==
  ASSUME DaemonInv, NEW p \in Running, NEW edits, NEW e,
         StartSave(p, edits, e), known[p] \subseteq edits,
         UNCHANGED mixed, Running' = Running,
         \A i \in Edits : cli'[i] \in {"done", "ok"} => cli'[i] = cli[i]
  PROVE  OneAtATime'
<1> USE DaemonAssumption DEF DaemonInv, DaemonTypeOK, Running
<1>1. ~mixed => \A q \in Daemons \ {p} : saving[q] = "no" /\ q \notin Running
  BY DEF History, Saves
<1>2. /\ known' = [known EXCEPT ![p] = edits]
      /\ saving' = [saving EXCEPT ![p] = "writing"]
      /\ tmp' = Garbled /\ UNCHANGED <<file, risky>>
  BY DEF StartSave
<1>3. ~mixed => Undisturbed'
  BY <1>1, <1>2 DEF Undisturbed
<1>4. ~mixed => FileIsKnown' /\ KnownIsSaved'
  BY <1>1, <1>2 DEF OneAtATime, FileIsKnown, KnownIsSaved
<1>5. ~mixed => DoneIsSaved'
  BY <1>2 DEF OneAtATime, DoneIsSaved
<1> QED
  BY <1>2, <1>3, <1>4, <1>5 DEF OneAtATime

\* A step of a process.
LEMMA OneProc ==
  ASSUME DaemonInv, NEW p \in Daemons, ProcStep(p)
  PROVE  OneAtATime'
<1>1. CASE Begin(p)
  BY <1>1, BeginAlone
<1>2. CASE Ending(p)
  BY <1>2, EndAlone
<1>3. CASE SaveStep(p)
  BY <1>3, SaveAlone
<1>4. CASE ~Begin(p) /\ ~Ending(p)
  <2>1. Running' = Running /\ p \in Running /\ UNCHANGED mixed
    BY <1>4, OthersRun DEF DaemonInv, historyVars
  <2>2. CASE DropRoutes(p) \/ BackgroundSave(p)
    BY <2>1, <2>2, StartSaveAlone DEF DropRoutes, BackgroundSave, cliVars
  <2>3. CASE UNCHANGED <<storeVars, fileVars, cliVars>>
    BY <2>1, <2>3
    DEF DaemonInv, OneAtATime, Undisturbed, FileIsKnown, KnownIsSaved, DoneIsSaved,
        storeVars, fileVars, cliVars
  <2> QED
    BY <1>3, <1>4, <2>2, <2>3
    DEF ProcStep, StartStep, Ending, Stat, Remove, Listen, Chmod, Shutdown
<1> QED
  BY <1>1, <1>2, <1>4

\* A step of a command.
LEMMA OneCli ==
  ASSUME DaemonInv, NEW e \in Edits, CliStep(e)
  PROVE  OneAtATime'
<1> USE DEF DaemonInv, DaemonTypeOK
<1>1. Running' = Running /\ UNCHANGED mixed
  BY CliRuns DEF historyVars
<1>2. CASE Handle(e)
  <2> DEFINE p == server[e]
  <2>1. p \in Running
    BY <1>2 DEF Handle, Running, Up, Answering, Starting, Connected, CliWaits
  <2>2. CASE e \in known[p]
    <3>1. UNCHANGED <<storeVars, fileVars>> /\ saving[p] = "no"
      BY <1>2, <2>2 DEF Handle
    <3>2. ~mixed => e \in file \cup risky
      BY <2>1, <2>2, <3>1 DEF OneAtATime, KnownIsSaved
    <3>3. \A i \in Edits \ {e} : cli'[i] = cli[i]
      BY <1>2, <2>2 DEF Handle
    <3> QED
      BY <1>1, <3>1, <3>2, <3>3
      DEF OneAtATime, Undisturbed, FileIsKnown, KnownIsSaved, DoneIsSaved, storeVars,
          fileVars
  <2>3. CASE e \notin known[p]
    BY <1>1, <1>2, <2>1, <2>3, StartSaveAlone DEF Handle
  <2> QED
    BY <2>2, <2>3
<1>3. CASE ~Handle(e)
  <2>1. UNCHANGED <<storeVars, fileVars>>
    BY <1>3 DEF CliStep, Check, Post, Connect, Checked, Answer, Answered, Again
  <2>2. \A i \in Edits : cli'[i] \in {"done", "ok"} => cli[i] \in {"done", "ok"}
    BY <1>3 DEF CliStep, Check, Post, Connect, Checked, Answer, Answered, Again
  <2> QED
    BY <1>1, <2>1, <2>2
    DEF OneAtATime, Undisturbed, FileIsKnown, KnownIsSaved, DoneIsSaved, storeVars,
        fileVars
<1> QED
  BY <1>2, <1>3

-----------------------------------------------------------------------------
(* The theorems *)

\* Initially no daemon runs, and nothing is saved or answered.
LEMMA DaemonInvInit == DaemonInit => DaemonInv
<1> SUFFICES ASSUME DaemonInit PROVE DaemonInv
  OBVIOUS
<1>1. DaemonTypeOK
  BY DaemonTypeInit
<1>2. Running = {}
  BY DEF DaemonInit, Running, Up, Starting, Answering
<1>3. History /\ HasPath
  BY <1>2 DEF DaemonInit, History, HasPath
<1>4. Saves /\ Connected
  BY DaemonAssumption DEF DaemonInit, Saves, Connected, CliWaits
<1>5. OneAtATime
  BY <1>2, DaemonAssumption
  DEF DaemonInit, OneAtATime, Undisturbed, FileIsKnown, KnownIsSaved, DoneIsSaved
<1> QED
  BY <1>1, <1>3, <1>4, <1>5 DEF DaemonInv

\* The invariant is inductive.
LEMMA DaemonInvNext == DaemonInv /\ [DaemonNext]_daemonVars => DaemonInv'
<1> SUFFICES ASSUME DaemonInv, [DaemonNext]_daemonVars PROVE DaemonInv'
  OBVIOUS
<1>1. ASSUME NEW p \in Daemons, ProcStep(p) PROVE DaemonInv'
  BY <1>1, DaemonTypeProc, HistoryProc, SavesProc, ConnectedProc, OneProc, PathProc
  DEF DaemonInv
<1>2. ASSUME NEW e \in Edits, CliStep(e) PROVE DaemonInv'
  BY <1>2, DaemonTypeCli, CliKeeps, OneCli DEF DaemonInv
<1>3. CASE UNCHANGED daemonVars
  BY <1>3
  DEF DaemonInv, DaemonTypeOK, History, Saves, Connected, OneAtATime, Undisturbed,
      FileIsKnown, KnownIsSaved, DoneIsSaved, HasPath, Running, daemonVars, storeVars,
      fileVars, cliVars, historyVars
<1> QED
  BY <1>1, <1>2, <1>3 DEF DaemonNext

\* Everything in DaemonInv holds at every step of any number of daemons, whatever
\* crashes and whichever write fails.
THEOREM DaemonInvariant == DaemonSpec => []DaemonInv
  BY DaemonInvInit, DaemonInvNext, PTL DEF DaemonSpec

\* The state file can always be read, as long as one daemon at a time has run.
THEOREM FileIsReadable == DaemonSpec => []AlwaysReadable
<1>1. DaemonInv => AlwaysReadable
  BY DEF DaemonInv, OneAtATime, AlwaysReadable
<1> QED
  BY <1>1, DaemonInvariant, PTL

\* An answered edit outlives every crash, as long as one daemon at a time has run
\* and no save of it has failed.
THEOREM AnswersAreSaved == DaemonSpec => []AnsweredIsSaved
<1>1. DaemonInv => AnsweredIsSaved
  BY DEF DaemonInv, OneAtATime, DoneIsSaved, AnsweredIsSaved
<1> QED
  BY <1>1, DaemonInvariant, PTL

\* A daemon that serves, and that no other has run next to, has the path.
THEOREM AloneHasPath == DaemonSpec => []AloneIsReachable
<1>1. DaemonInv => AloneIsReachable
  BY DEF DaemonInv, HasPath, AloneIsReachable
<1> QED
  BY <1>1, DaemonInvariant, PTL

\* The window only watches: with it the daemons do what they do without it, so the
\* three theorems hold with a window too.
THEOREM WindowOnlyWatches == DesktopSpec => DaemonSpec
<1>1. DesktopInit => DaemonInit
  BY DEF DesktopInit
<1>2. [DesktopNext]_desktopVars => [DaemonNext]_daemonVars
  <2> SUFFICES ASSUME [DesktopNext]_desktopVars PROVE [DaemonNext]_daemonVars
    OBVIOUS
  <2>1. CASE DaemonMoves
    BY <2>1 DEF DaemonMoves
  <2>2. CASE WindowStep
    BY <2>2 DEF WindowStep, Ask, TimeOut, Snapshot, Show
  <2>3. CASE UNCHANGED desktopVars
    BY <2>3 DEF desktopVars
  <2> QED
    BY <2>1, <2>2, <2>3 DEF DesktopNext
<1> QED
  BY <1>1, <1>2, PTL DEF DesktopSpec, DaemonSpec

\* The window's variables have their types: nothing on its way to it is blank.
THEOREM WindowTypeCorrect == DesktopSpec => []DesktopTypeOK
<1>1. DesktopInit => DesktopTypeOK
  BY DaemonTypeInit DEF DesktopInit, DesktopTypeOK, Shows
<1>2. DesktopTypeOK /\ DaemonInv /\ [DesktopNext]_desktopVars => DesktopTypeOK'
  <2> SUFFICES ASSUME DesktopTypeOK, DaemonInv, [DesktopNext]_desktopVars
               PROVE  DesktopTypeOK'
    OBVIOUS
  <2> USE DesktopAssumption DEF DesktopTypeOK, Shows
  <2>1. CASE DaemonMoves
    <3>1. DaemonTypeOK'
      BY <2>1, DaemonInvNext DEF DaemonMoves, DaemonInv
    <3> QED
      BY <2>1, <3>1 DEF DaemonMoves
  <2>2. CASE WindowStep
    <3>1. DaemonTypeOK'
      BY <2>2, DaemonInvNext
      DEF WindowStep, Ask, TimeOut, Snapshot, Show, DaemonInv
    <3>2. CASE Ask
      BY <3>1, <3>2 DEF Ask
    <3>3. CASE TimeOut
      BY <3>1, <3>3 DEF TimeOut
    <3>4. ASSUME NEW p \in Daemons, Snapshot(p) PROVE DesktopTypeOK'
      <4>1. known[p] \in SUBSET Edits
        BY DEF DaemonTypeOK
      <4> QED
        BY <3>1, <3>4, <4>1 DEF Snapshot
    <3>5. ASSUME NEW status \in inFlight,
                 Show(status, inFlight) \/ Show(status, inFlight \ {status})
          PROVE  DesktopTypeOK'
      BY <3>1, <3>5 DEF Show
    <3> QED
      BY <2>2, <3>2, <3>3, <3>4, <3>5 DEF WindowStep
  <2>3. CASE UNCHANGED desktopVars
    <3>1. DaemonTypeOK'
      BY <2>3, DaemonInvNext DEF desktopVars, DaemonInv
    <3> QED
      BY <2>3, <3>1 DEF desktopVars, windowVars
  <2> QED
    BY <2>1, <2>2, <2>3 DEF DesktopNext
<1> QED
  BY <1>1, <1>2, DaemonInvariant, WindowOnlyWatches, PTL DEF DesktopSpec


-----------------------------------------------------------------------------
(* Daemon implements Durability *)

\* The commands that the specification calls open, and those it calls answered.
Waiting == {e \in Edits : cli[e] \in {"post", "done"}}
Confirmed == {e \in Edits : cli[e] = "ok"}

mapped == <<OnDisk, InMemory, Waiting, Confirmed, risky, mixed>>

\* Whoever runs alone has in memory what is known.
LEMMA MemoryOfOne ==
  ASSUME DaemonInv, ~mixed, NEW p \in Running
  PROVE  Running = {p} /\ InMemory = known[p]
<1>1. Running = {p}
  BY DEF DaemonInv, History
<1> QED
  BY <1>1 DEF InMemory

\* A step that leaves the file, memory and who runs alone shows in commands at most.
LEMMA StoreStays ==
  ASSUME Running' = Running, UNCHANGED <<file, known>>
  PROVE  UNCHANGED <<OnDisk, InMemory>>
BY DEF OnDisk, InMemory

\* A daemon that comes up knows what the next one was to know.
LEMMA BeginKeeps ==
  ASSUME DaemonInv, NEW p \in Daemons, Begin(p), ~mixed'
  PROVE  UNCHANGED mapped
<1> USE DEF DaemonInv, DaemonTypeOK
<1>1. ~mixed /\ file # Garbled
  BY DEF Begin, historyVars, OneAtATime
<1>2. Running = {} /\ known' = [known EXCEPT ![p] = Loaded] /\ Become(p, "loaded")
  BY <1>1 DEF Begin
<1>3. Running' = {p}
  BY <1>2 DEF Running, Become, Up, Starting
<1>4. UNCHANGED <<file, risky, cli, mixed>>
  BY <1>1 DEF Begin, fileVars, cliVars
<1>5. InMemory = OnDisk
  BY <1>2 DEF InMemory
<1>6. known'[p] = OnDisk
  BY <1>2 DEF Loaded, OnDisk
<1>7. InMemory' = OnDisk
  BY <1>3, <1>6 DEF InMemory
<1> QED
  BY <1>4, <1>5, <1>7 DEF mapped, OnDisk, Waiting, Confirmed

\* A daemon that ends forgets what is not stored, and its commands fail.
LEMMA EndForgets ==
  ASSUME DaemonInv, NEW p \in Daemons, Ending(p), ~mixed'
  PROVE  Promise!Forget
<1> USE DEF DaemonInv
<1>1. ~mixed /\ UNCHANGED <<file, risky, mixed>>
  BY EndingRuns DEF fileVars
<1>2. p \in Running
  BY DEF Ending, StartFails, Exit, Crash, Running, Up, Starting, Answering
<1>3. Running' = {}
  BY <1>1, <1>2, EndingRuns, MemoryOfOne
<1>4. OnDisk' = OnDisk /\ InMemory' = OnDisk
  BY <1>1, <1>3 DEF InMemory, OnDisk
<1>5. \A e \in Edits : server[e] = p => cli[e] # "ok"
  BY DEF Connected, CliWaits
<1>6. Waiting' \subseteq Waiting /\ Confirmed' = Confirmed
  BY <1>5, EndingRuns DEF Waiting, Confirmed
<1> QED
  BY <1>1, <1>4, <1>6 DEF Promise!Forget, Waiting, Confirmed

\* Writing the temporary file shows nowhere, renaming it stores what is known, and
\* a failure to do either is on record.
LEMMA SavePromises ==
  ASSUME DaemonInv, NEW p \in Daemons, SaveStep(p), ~mixed'
  PROVE  UNCHANGED mapped \/ Promise!Store \/ Promise!FailToStore
<1> USE DEF DaemonInv
<1>1. UNCHANGED <<proc, known, mixed>>
  BY DEF SaveStep, WriteTemp, Rename, SaveFails, EndSave, historyVars
<1>2. Running' = Running
  BY <1>1 DEF Running
<1>3. p \in Running
  BY DEF SaveStep, WriteTemp, Rename, SaveFails, Saves
<1>4. ~mixed /\ InMemory = known[p]
  BY <1>1, <1>3, MemoryOfOne
<1>5. InMemory' = InMemory
  BY <1>1, <1>2, <1>3 DEF InMemory
<1>6. file # Garbled /\ Undisturbed
  BY <1>4 DEF OneAtATime
<1>7. CASE WriteTemp(p)
  <2>1. UNCHANGED <<file, risky, cli, mixed>>
    BY <1>6, <1>7 DEF WriteTemp, Undisturbed, cliVars, historyVars
  <2> QED
    BY <1>5, <2>1 DEF mapped, OnDisk, Waiting, Confirmed
<1>8. ASSUME Rename(p) \/ SaveFails(p)
      PROVE  Waiting' = Waiting /\ Confirmed' = Confirmed
  <2>1. \A e \in Edits : e = saver[p] => cli[e] = "post"
    BY DEF Saves
  <2>2. cli' = [e \in Edits |-> IF e = saver[p] THEN "done" ELSE cli[e]]
    BY <1>8 DEF Rename, SaveFails, EndSave
  <2> QED
    BY <2>1, <2>2 DEF Waiting, Confirmed
<1>9. CASE Rename(p)
  <2>1. file' = known[p] /\ risky' = risky \ known[p]
    BY <1>6, <1>9 DEF Rename, Undisturbed
  <2>2. OnDisk' = InMemory
    BY <1>4, <2>1, DaemonAssumption DEF OnDisk, DaemonTypeOK
  <2> QED
    BY <1>1, <1>4, <1>5, <1>8, <1>9, <2>1, <2>2
    DEF Promise!Store, Promise!commands, Waiting, Confirmed
<1>10. CASE SaveFails(p)
  <2>1. risky' = risky \cup (known[p] \ file) /\ OnDisk' = OnDisk
    BY <1>10 DEF SaveFails, OnDisk
  <2>2. known[p] \ file = InMemory \ OnDisk
    BY <1>4, DaemonAssumption DEF OnDisk, DaemonTypeOK
  <2>3. risky' = risky \cup (InMemory \ OnDisk)
    BY <2>1, <2>2
  <2> QED
    BY <1>1, <1>5, <1>8, <1>10, <2>1, <2>3
    DEF Promise!FailToStore, Promise!commands, Waiting, Confirmed
<1> QED
  BY <1>7, <1>9, <1>10 DEF SaveStep

\* A step of a process is one of the promise, as long as one daemon runs at a time.
LEMMA ProcPromises ==
  ASSUME DaemonInv, NEW p \in Daemons, ProcStep(p), ~mixed'
  PROVE  Promise!Next \/ UNCHANGED mapped
<1>1. CASE Begin(p)
  BY <1>1, BeginKeeps
<1>2. CASE Ending(p)
  BY <1>2, EndForgets DEF Promise!Next
<1>3. CASE SaveStep(p)
  BY <1>3, SavePromises DEF Promise!Next
<1>4. CASE ~Begin(p) /\ ~Ending(p) /\ ~SaveStep(p)
  <2>1. Running' = Running /\ UNCHANGED mixed
    BY <1>4, OthersRun DEF DaemonInv, historyVars
  <2>2. UNCHANGED <<file, known, risky, cli>>
    BY <1>4
    DEF ProcStep, StartStep, Ending, DropRoutes, BackgroundSave, StartSave, Stat,
        Remove, Listen, Chmod, Shutdown, storeVars, fileVars, cliVars, DaemonInv,
        DaemonTypeOK
  <2> QED
    BY <2>1, <2>2, StoreStays DEF mapped, Waiting, Confirmed
<1> QED
  BY <1>1, <1>2, <1>3, <1>4

\* So is a step of a command: it asks, the daemon learns, and answers what is saved.
LEMMA CliPromises ==
  ASSUME DaemonInv, NEW e \in Edits, CliStep(e), ~mixed'
  PROVE  Promise!Next \/ UNCHANGED mapped
<1> USE DEF DaemonInv, DaemonTypeOK
<1>1. Running' = Running /\ UNCHANGED mixed
  BY CliRuns DEF historyVars
<1>2. UNCHANGED <<file, risky>>
  BY DEF CliStep, Check, Post, Connect, Checked, Answer, Answered, Handle, Again,
         StartSave, fileVars
<1>3. ASSUME UNCHANGED known PROVE UNCHANGED <<OnDisk, InMemory>>
  BY <1>1, <1>2, <1>3, StoreStays
<1>4. CASE Check(e) \/ Checked(e) \/ Again(e)
  <2>1. UNCHANGED known
    BY <1>4 DEF Check, Checked, Connect, Answered, Again, storeVars
  <2>2. Waiting' = Waiting /\ Confirmed' = Confirmed
    BY <1>4 DEF Check, Checked, Connect, Answered, Again, Waiting, Confirmed
  <2> QED
    BY <1>1, <1>2, <1>3, <2>1, <2>2 DEF mapped
<1>5. CASE Post(e)
  <2>1. UNCHANGED known
    BY <1>5 DEF Post, Connect, storeVars
  <2>2. Confirmed' = Confirmed
    BY <1>5 DEF Post, Connect, Confirmed
  <2>3. CASE path \in Daemons
    <3>1. Waiting' = Waiting \cup {e}
      BY <1>5, <2>3 DEF Post, Connect, Waiting
    <3>2. Promise!Ask(e)
      BY <1>1, <1>2, <1>3, <2>1, <2>2, <3>1 DEF Promise!Ask, Waiting, Confirmed
    <3> QED
      BY <3>2 DEF Promise!Next
  <2>4. CASE path \notin Daemons
    <3>1. Waiting' = Waiting
      BY <1>5, <2>4 DEF Post, Connect, Waiting
    <3> QED
      BY <1>1, <1>2, <1>3, <2>1, <2>2, <3>1 DEF mapped
  <2> QED
    BY <2>3, <2>4
<1>6. CASE Handle(e)
  <2>1. Waiting' = Waiting /\ Confirmed' = Confirmed
    BY <1>6 DEF Handle, Waiting, Confirmed
  <2>2. CASE e \in known[server[e]]
    <3>1. UNCHANGED known
      BY <1>6, <2>2 DEF Handle, storeVars
    <3> QED
      BY <1>1, <1>2, <1>3, <2>1, <3>1 DEF mapped
  <2>3. CASE e \notin known[server[e]]
    <3>1. PICK p \in Running : p = server[e]
      BY <1>6 DEF Handle, Running, Up, Answering, Starting, Connected, CliWaits
    <3>2. known' = [known EXCEPT ![p] = known[p] \cup {e}]
      BY <1>6, <2>3, <3>1 DEF Handle, StartSave
    <3>3. Running = {p} /\ InMemory = known[p]
      BY <1>1, MemoryOfOne
    <3>4. known'[p] = InMemory \cup {e}
      BY <3>2, <3>3 DEF Running
    <3>5. InMemory' = InMemory \cup {e}
      BY <1>1, <3>3, <3>4 DEF InMemory
    <3>6. e \in Waiting /\ OnDisk' = OnDisk
      BY <1>2, <1>6 DEF Handle, Waiting, OnDisk
    <3>7. Promise!Learn(e)
      BY <1>1, <1>2, <2>1, <3>5, <3>6
      DEF Promise!Learn, Promise!commands, Waiting, Confirmed
    <3> QED
      BY <3>7 DEF Promise!Next
  <2> QED
    BY <2>2, <2>3
<1>7. CASE Answer(e)
  <2>1. UNCHANGED known
    BY <1>7 DEF Answer, Answered, storeVars
  <2>2. Waiting' = Waiting \ {e} /\ Confirmed' = Confirmed \cup {e} /\ e \in Waiting
    BY <1>7 DEF Answer, Answered, Waiting, Confirmed
  <2>3. e \in file \cup risky
    BY <1>1, <1>7 DEF OneAtATime, DoneIsSaved, Answer
  <2>4. e \in OnDisk \cup risky
    BY <2>3, DaemonAssumption DEF OnDisk
  <2>5. Promise!Answer(e)
    BY <1>1, <1>2, <1>3, <2>1, <2>2, <2>4 DEF Promise!Answer, Waiting, Confirmed
  <2> QED
    BY <2>5 DEF Promise!Next
<1> QED
  BY <1>4, <1>5, <1>6, <1>7 DEF CliStep

\* Writing a file of its own and renaming it makes a save one step of memory onto
\* the disk, at whatever step a daemon ends: Daemon does what Durability says.
THEOREM DaemonKeepsPromise == DaemonSpec => ImplementsDurability
<1>1. DaemonInit => Promise!Init
  BY DaemonAssumption
  DEF DaemonInit, Promise!Init, OnDisk, InMemory, Running, Up, Starting, Answering
<1>2. ASSUME DaemonInv, [DaemonNext]_daemonVars
      PROVE  Promise!Next \/ UNCHANGED mapped
  <2>1. CASE UNCHANGED daemonVars
    BY <2>1
    DEF mapped, OnDisk, InMemory, Running, Waiting, Confirmed, daemonVars, storeVars,
        fileVars, cliVars, historyVars
  <2>2. CASE mixed'
    BY <2>2 DEF Promise!Next, Promise!Share
  <2>3. CASE ~mixed'
    BY <1>2, <2>1, <2>3, ProcPromises, CliPromises DEF DaemonNext
  <2> QED
    BY <2>2, <2>3
<1>3. ASSUME DaemonInv, [DaemonNext]_daemonVars
      PROVE  [Promise!Next]_<<OnDisk, InMemory,
                 <<{e \in Edits : cli[e] \in {"post", "done"}},
                   {e \in Edits : cli[e] = "ok"}>>, risky, mixed>>
  BY <1>2, <1>3 DEF mapped, Waiting, Confirmed
<1> QED
  BY <1>1, <1>3, DaemonInvariant, PTL
  DEF DaemonSpec, ImplementsDurability, Promise!Spec, Promise!vars, Promise!commands

\* With a window too.
COROLLARY DesktopKeepsPromise == DesktopSpec => ImplementsDurability
BY WindowOnlyWatches, DaemonKeepsPromise, PTL

-----------------------------------------------------------------------------
(* What Durability says *)

\* What is stored is known, and what is answered is stored or excused.
Reliable == ~mixed => OnDisk \subseteq InMemory /\ Confirmed \subseteq OnDisk \cup risky

\* A step of the promise keeps that true, and loses nothing that is stored.
LEMMA PromiseKeeps ==
  ASSUME Reliable, Promise!Next \/ UNCHANGED mapped
  PROVE  Reliable' /\ (~mixed' => OnDisk \subseteq OnDisk')
<1> USE DEF Reliable
<1>1. CASE UNCHANGED mapped
  BY <1>1 DEF mapped
<1>2. ASSUME NEW e \in Edits, Promise!Ask(e) \/ Promise!Learn(e) \/ Promise!Answer(e)
      PROVE  Reliable' /\ (~mixed' => OnDisk \subseteq OnDisk')
  BY <1>2 DEF Promise!Ask, Promise!Learn, Promise!Answer, Promise!commands, Confirmed
<1>3. CASE Promise!Store
  BY <1>3 DEF Promise!Store, Promise!commands, Confirmed
<1>4. CASE Promise!FailToStore
  BY <1>4 DEF Promise!FailToStore, Promise!commands, Confirmed
<1>5. CASE Promise!Forget
  BY <1>5 DEF Promise!Forget, Confirmed
<1>6. CASE Promise!Share
  BY <1>6 DEF Promise!Share
<1> QED
  BY <1>1, <1>2, <1>3, <1>4, <1>5, <1>6 DEF Promise!Next

\* Durability is strong enough to say that answers are stored, and that nothing that
\* is stored is lost: both are true of whatever implements it.
THEOREM PromiseIsKept ==
  Promise!Spec => []Promise!AnsweredIsStored /\ Promise!NothingIsLost
<1> DEFINE vars == <<OnDisk, InMemory,
                     <<{e \in Edits : cli[e] \in {"post", "done"}},
                       {e \in Edits : cli[e] = "ok"}>>, risky, mixed>>
<1>1. Promise!Init => Reliable
  BY DEF Promise!Init, Reliable, Confirmed
<1>2. Reliable /\ [Promise!Next]_vars => Reliable'
  BY PromiseKeeps DEF mapped, Waiting, Confirmed
<1>3. Reliable /\ [Promise!Next]_vars => [~mixed' => OnDisk \subseteq OnDisk']_OnDisk
  BY PromiseKeeps DEF mapped, Waiting, Confirmed
<1>4. Reliable => Promise!AnsweredIsStored
  BY DEF Reliable, Confirmed, Promise!AnsweredIsStored
<1> QED
  BY <1>1, <1>2, <1>3, <1>4, PTL
  DEF Promise!Spec, Promise!vars, Promise!commands, Promise!NothingIsLost

\* So no step of a daemon, a crash or another start included, loses an edit that is
\* in the state file, as long as one daemon at a time has run.
THEOREM NoEditIsLost == DaemonSpec => [][~mixed' => OnDisk \subseteq OnDisk']_OnDisk
BY DaemonKeepsPromise, PromiseIsKept, PTL DEF ImplementsDurability, Promise!NothingIsLost
=============================================================================
