---------------------------- MODULE StartupProofs ----------------------------
(***************************************************************************)
(* A server that listens has the whole schema, from the file of every      *)
(* release, with any accounts and after any number of killed starts; and   *)
(* no statement of a start fails, but where an address is missing or an    *)
(* admin meets a table that does not know the plan of admins.              *)
(*                                                                         *)
(* What is there is not known from the release a file came from, but from  *)
(* the guards the start has passed: a guard that finds its fact tells what *)
(* its block would have made.  The invariant is that guards do tell it,    *)
(* whenever the process may end; that they are so placed in the program is *)
(* what StartupGuards states.                                              *)
(***************************************************************************)
EXTENDS StartupGuards, TLAPS

\* Between its two statements the block that adds origin is not done, and its
\* guard would say it is.
InWindow(n) == process = "starting" /\ at = [block |-> n, stmt |-> 2] /\ Program[n].name = "origin"

StartTypes ==
  /\ process \in {"down", "starting", "serving"}
  /\ at \in [block : 1..(Len(Program) + 2), stmt : Nat]
  /\ at.block \in Blocks => at.stmt \in 0..Len(Body(at.block))
  /\ process = "serving" => at.block = Len(Program) + 2
  /\ deaths \in Seq([block : Nat, stmt : Nat])

GuardsTell == \A n \in Blocks : Guard(n) \cap db # {} => Vouches(n) \subseteq db \/ InWindow(n)

VendorsNeedOrigin == Vendors \in db => Origin \in db

PassedBlocks ==
  process # "down" => \A n \in Blocks : n < at.block => Vouches(n) \subseteq db

PassedStatements ==
  \A n \in Blocks : process = "starting" /\ at.block = n =>
    \A k \in Statements(n) : k < at.stmt => Ensures(Body(n)[k]) \subseteq db

\* A block was entered because nothing its guard looks for was there.
JustEntered ==
  \A n \in Blocks : process = "starting" /\ at = [block |-> n, stmt |-> 1] =>
    Guard(n) \cap db = {}

VendorsToCome == \A n \in Blocks : InWindow(n) => Vendors \notin db

FileInv ==
  /\ GuardsTell /\ VendorsNeedOrigin
  /\ PassedBlocks /\ PassedStatements
  /\ JustEntered /\ VendorsToCome

StartInv == StartTypes /\ (~KilledIn("origin") => FileInv)

-----------------------------------------------------------------------------
(* The program. *)

LEMMA EnsuresSchema ==
  ASSUME NEW s
  PROVE  Ensures(s) \subseteq CurrentSchema
BY DEF Ensures

LEMMA VouchesSchema ==
  ASSUME NEW n \in Blocks
  PROVE  Vouches(n) \subseteq CurrentSchema
BY EnsuresSchema DEF Vouches

LEMMA KnownSchema ==
  ASSUME NEW n \in Blocks, NEW k
  PROVE  Known(n, k) \subseteq CurrentSchema
BY DEF Known

LEMMA OriginBlock ==
  ASSUME NEW n \in Blocks, Program[n].name = "origin"
  PROVE  /\ Guard(n) = {Origin}
         /\ Len(Body(n)) = 2
         /\ Body(n)[1] = AddColumn("memories", Origin)
         /\ Body(n)[2] = AddColumn("memories", Vendors)
<1>1. Program[n] = Repairs[1]
  BY VendorsComeSecond
<1>2. Repairs[1] = Block("origin", {Origin}, <<AddColumn("memories", Origin),
                                               AddColumn("memories", Vendors)>>)
  BY DEF Repairs, Origin, Vendors
<1> QED
  BY <1>1, <1>2 DEF Block, Guard, Body

LEMMA AddColumnMeans ==
  ASSUME NEW t, NEW c, NEW f
  PROVE  /\ ~Passed(AddColumn(t, c), f)
         /\ Fails(AddColumn(t, c), f) <=> t \notin f \/ c \in f
         /\ After(AddColumn(t, c), f) = f \cup {c}
         /\ AddColumn(t, c).adds = {c}
         /\ t \in CurrentSchema => t \in Ensures(AddColumn(t, c))
<1>1. AddColumn(t, c) = [needs |-> {t}, absent |-> {c}, adds |-> {c}, drops |-> {},
                         when |-> {}, unless |-> {}]
  BY DEF AddColumn, Statement
<1> HIDE DEF AddColumn
<1>2. ~Passed(AddColumn(t, c), f)
  BY <1>1 DEF Passed
<1>3. Fails(AddColumn(t, c), f) <=> t \notin f \/ c \in f
  BY <1>1, <1>2 DEF Fails
<1>4. After(AddColumn(t, c), f) = f \cup {c}
  BY <1>1, <1>2 DEF After
<1> QED
  BY <1>1, <1>2, <1>3, <1>4 DEF Ensures

-----------------------------------------------------------------------------
(* One statement. *)

\* What is known of the rows is told from what is known of the file.
LEMMA FactsAre ==
  \E rows \in SUBSET RowFacts :
    /\ Facts = db \cup rows
    /\ "everybody addressed" \notin rows => addressed # accounts
    /\ "admin on a narrow plan" \in rows => admins # {} /\ "users.narrow_plan" \in db
<1> DEFINE rows == {fact \in RowFacts : RowFact(fact)}
<1>1. "everybody addressed" \in RowFacts /\ "admin on a narrow plan" \in RowFacts
  BY DEF RowFacts
<1>2. RowFact("everybody addressed") <=> addressed = accounts
  BY DEF RowFact
<1>3. RowFact("admin on a narrow plan") <=> admins # {} /\ "users.narrow_plan" \in db
  BY DEF RowFact
<1>4. rows \in SUBSET RowFacts /\ Facts = db \cup rows
  BY DEF Facts
<1> QED
  BY <1>1, <1>2, <1>3, <1>4

\* The rows may make a statement fail, but pass over none.
LEMMA FactsPass ==
  ASSUME NEW n \in Blocks, NEW k \in Statements(n)
  PROVE  Passed(Body(n)[k], Facts) <=> Passed(Body(n)[k], db)
<1>1. PICK rows \in SUBSET RowFacts : Facts = db \cup rows
  BY FactsAre
<1>2. RowFacts \cap (Body(n)[k].when \cup Body(n)[k].unless) = {}
  BY OutsideFacts
<1> QED
  BY <1>1, <1>2 DEF Passed

\* What is there of the schema stays.
LEMMA SchemaStays ==
  ASSUME NEW n \in Blocks, NEW k \in Statements(n)
  PROVE  CurrentSchema \cap db \subseteq After(Body(n)[k], db)
BY SchemaIsMade DEF After

\* A statement that is run has found what it needs.
LEMMA StatementMakes ==
  ASSUME NEW n \in Blocks, NEW k \in Statements(n),
         ~Fails(Body(n)[k], Facts), ~Passed(Body(n)[k], db)
  PROVE  Body(n)[k].adds \cup (Body(n)[k].needs \cap CurrentSchema) \subseteq After(Body(n)[k], db)
<1>1. Body(n)[k].needs \subseteq Facts
  BY FactsPass DEF Fails
<1>2. Body(n)[k].needs \cap CurrentSchema \subseteq db
  BY <1>1, OutsideFacts, FactsAre
<1>3. Body(n)[k].adds \subseteq After(Body(n)[k], db)
  BY DEF After
<1> QED
  BY <1>2, <1>3, SchemaStays

LEMMA StatementEnsures ==
  ASSUME NEW n \in Blocks, NEW k \in Statements(n),
         ~Fails(Body(n)[k], Facts), Known(n, k) \subseteq db
  PROVE  Ensures(Body(n)[k]) \subseteq After(Body(n)[k], db)
<1> DEFINE s == Body(n)[k]
<1> SUFFICES ASSUME NEW c \in Ensures(s) PROVE c \in After(s, db)
  OBVIOUS
<1>1. /\ c \in CurrentSchema /\ c \in s.adds \cup s.needs
      /\ s.when \subseteq CurrentSchema /\ s.unless \subseteq {c}
  BY DEF Ensures
<1>2. s.when \subseteq db
  BY <1>1, WaitsAreOver
<1>3. CASE Passed(s, db)
  <2>1. c \in db
    BY <1>1, <1>2, <1>3 DEF Passed
  <2> QED
    BY <2>1, <1>1, SchemaStays
<1>4. CASE ~Passed(s, db)
  BY <1>4, <1>1, StatementMakes
<1> QED
  BY <1>3, <1>4

\* In the window of the block that adds origin nothing fails.
LEMMA WindowRuns ==
  ASSUME FileInv, NEW n \in Blocks, InWindow(n)
  PROVE  ~Fails(Body(n)[2], Facts)
<1>1. Vendors \notin db
  BY DEF FileInv, VendorsToCome
<1>2. 1 \in Statements(n) /\ Ensures(Body(n)[1]) \subseteq db
  BY OriginBlock DEF FileInv, PassedStatements, InWindow, Statements
<1>3. "memories" \in db
  BY <1>2, OriginBlock, AddColumnMeans, VendorsComeSecond DEF InWindow
<1>4. Vendors \notin Facts /\ "memories" \in Facts
  BY <1>1, <1>3, FactsAre, OutsideFacts, VendorsComeSecond
<1> QED
  BY <1>4, OriginBlock, AddColumnMeans DEF InWindow

-----------------------------------------------------------------------------
(* Init, and the steps that do not touch the file. *)

LEMMA InitClosed == StartInit => Closed(db)
<1> SUFFICES ASSUME StartInit PROVE Closed(db)
  OBVIOUS
<1>1. CASE db = {}
  BY <1>1 DEF Closed
<1>2. CASE db # {}
  <2>1. PICK n \in DOMAIN Released, x \in SUBSET {"users.narrow_plan"}, y \in SUBSET {"001"} :
          db = Released[n] \cup x \cup y
    BY <1>2 DEF StartInit, NarrowPlan
  <2>2. Closed(Released[n])
    BY ReleasesAreClosed
  <2>3. \A i \in Blocks : Guard(i) \cap db = Guard(i) \cap Released[n]
    BY <2>1, OutsideFacts
  <2>4. Vendors \in db => Vendors \in Released[n]
    BY <2>1 DEF Vendors
  <2> QED
    BY <2>1, <2>2, <2>3, <2>4 DEF Closed
<1> QED
  BY <1>1, <1>2

LEMMA StartInitInv == StartInit => StartInv
<1> SUFFICES ASSUME StartInit PROVE StartInv
  OBVIOUS
<1>1. StartTypes
  BY ProgramShape DEF StartInit, StartTypes, Blocks, Body
<1>2. FileInv
  BY InitClosed
     DEF StartInit, Closed, FileInv, GuardsTell, VendorsNeedOrigin, PassedBlocks,
         PassedStatements, JustEntered, VendorsToCome, InWindow
<1> QED
  BY <1>1, <1>2 DEF StartInv

\* Deaths are remembered.
LEMMA KilledStays ==
  ASSUME NEW name, deaths \in Seq([block : Nat, stmt : Nat]), NEW d,
         deaths' = deaths \/ deaths' = Append(deaths, d),
         KilledIn(name)
  PROVE  KilledIn(name)'
<1>1. PICK i \in DOMAIN deaths : /\ deaths[i].block <= Len(Program)
                                 /\ Program[deaths[i].block].name = name
                                 /\ deaths[i].stmt \in Unrepeatable[name]
  BY DEF KilledIn
<1>2. i \in DOMAIN deaths' /\ deaths'[i] = deaths[i]
  OBVIOUS
<1> QED
  BY <1>1, <1>2 DEF KilledIn

LEMMA StartKeeps == StartInv /\ Start => StartInv'
<1> SUFFICES ASSUME StartInv, Start PROVE StartInv'
  OBVIOUS
<1> USE DEF Start
<1>1. StartTypes'
  BY ProgramShape DEF StartInv, StartTypes, Blocks, Body
<1>2. KilledIn("origin")' <=> KilledIn("origin")
  BY DEF KilledIn
<1>3. ASSUME FileInv PROVE FileInv'
  BY <1>3, ProgramShape
     DEF FileInv, GuardsTell, VendorsNeedOrigin, PassedBlocks, PassedStatements,
         JustEntered, VendorsToCome, InWindow, Blocks, Statements
<1> QED
  BY <1>1, <1>2, <1>3 DEF StartInv

\* The guard: a block passed over has had its guard tell.
LEMMA EnterKeeps == StartInv /\ Enter => StartInv'
<1> SUFFICES ASSUME StartInv, Enter PROVE StartInv'
  OBVIOUS
<1> DEFINE n == at.block
<1>1. n \in Blocks /\ at = [block |-> n, stmt |-> 0] /\ process = "starting"
  BY DEF Enter, InProgram, StartInv, StartTypes, Blocks
<1>2. \/ Guard(n) \cap db = {} /\ at' = [block |-> n, stmt |-> 1]
      \/ Guard(n) \cap db # {} /\ at' = [block |-> n + 1, stmt |-> 0]
  BY <1>1, ProgramShape DEF Enter, Here, NextBlock, Guard, Body
<1>3. db' = db /\ process' = process /\ deaths' = deaths
  BY DEF Enter
<1>4. StartTypes'
  BY <1>1, <1>2, <1>3, ProgramShape DEF StartInv, StartTypes, Blocks
<1>5. KilledIn("origin")' <=> KilledIn("origin")
  BY <1>3 DEF KilledIn
<1>6. ASSUME FileInv PROVE FileInv'
  <2> USE <1>1, <1>2, <1>3, <1>6
  <2>1. \A i \in Blocks : ~InWindow(i) /\ ~InWindow(i)'
    BY DEF InWindow
  <2>2. GuardsTell' /\ VendorsNeedOrigin' /\ VendorsToCome'
    BY <2>1 DEF FileInv, GuardsTell, VendorsNeedOrigin, VendorsToCome
  <2>3. PassedBlocks'
    <3>1. Guard(n) \cap db # {} => Vouches(n) \subseteq db
      BY <2>1 DEF FileInv, GuardsTell
    <3> QED
      BY <3>1, ProgramShape DEF FileInv, PassedBlocks, Blocks
  <2>4. PassedStatements'
    BY DEF PassedStatements, Statements
  <2>5. JustEntered'
    BY DEF JustEntered
  <2> QED
    BY <2>2, <2>3, <2>4, <2>5 DEF FileInv
<1> QED
  BY <1>4, <1>5, <1>6 DEF StartInv

-----------------------------------------------------------------------------
(* A statement of the program, at the k-th of the n-th block. *)

LEMMA KnownHolds ==
  ASSUME FileInv, NEW n \in Blocks, NEW k \in Nat, process = "starting",
         at = [block |-> n, stmt |-> k]
  PROVE  Known(n, k) \subseteq db
<1>1. \A i \in Blocks : i < n => Vouches(i) \subseteq db
  BY DEF FileInv, PassedBlocks
<1>2. \A j \in Statements(n) : j < k => Ensures(Body(n)[j]) \subseteq db
  BY DEF FileInv, PassedStatements
<1> QED
  BY <1>1, <1>2 DEF Known

\* What is known stays known, and the statement adds to it.
LEMMA KnownGrows ==
  ASSUME NEW n \in Blocks, NEW k \in Statements(n), Known(n, k) \subseteq db,
         ~Fails(Body(n)[k], Facts), db' = After(Body(n)[k], db)
  PROVE  Known(n, k) \subseteq db' /\ Known(n, k + 1) \subseteq db'
<1>1. Known(n, k) \subseteq db'
  BY KnownSchema, SchemaStays
<1>2. Ensures(Body(n)[k]) \subseteq db'
  BY StatementEnsures
<1>3. ASSUME NEW j \in Statements(n), j < k + 1 PROVE j < k \/ j = k
  BY <1>3 DEF Statements
<1>4. Known(n, k + 1) \subseteq Known(n, k) \cup Ensures(Body(n)[k])
  BY <1>3 DEF Known
<1> QED
  BY <1>1, <1>2, <1>4

\* A fact that was made tells what it should; but for the window of origin.
LEMMA MadeFactsTell ==
  ASSUME NEW n \in Blocks, NEW k \in Statements(n), Known(n, k) \subseteq db,
         ~Fails(Body(n)[k], Facts), db' = After(Body(n)[k], db),
         NEW i \in Blocks, Guard(i) \cap db' # {}, Guard(i) \cap db = {}
  PROVE  \/ Vouches(i) \subseteq db'
         \/ i = n /\ k = 1 /\ Program[n].name = "origin"
<1>1. ~Passed(Body(n)[k], db) /\ Body(n)[k].adds \cap Guard(i) # {}
  BY DEF After
<1>2. Body(n)[k].adds \cup (Body(n)[k].needs \cap CurrentSchema) \subseteq db'
  BY <1>1, StatementMakes
<1>3. Known(n, k) \subseteq db'
  BY KnownGrows
<1> QED
  BY <1>1, <1>2, <1>3, GuardFactsComeLast

LEMMA RunFile ==
  ASSUME StartTypes, FileInv,
         NEW n \in Blocks, NEW k \in Statements(n), process = "starting",
         at = [block |-> n, stmt |-> k],
         ~Fails(Body(n)[k], Facts), db' = After(Body(n)[k], db), process' = process,
         at' = IF k = Len(Body(n)) THEN [block |-> n + 1, stmt |-> 0]
                                   ELSE [block |-> n, stmt |-> k + 1]
  PROVE  FileInv'
<1>1. Known(n, k) \subseteq db
  BY KnownHolds DEF Statements
<1>2. Known(n, k + 1) \subseteq db'
  BY <1>1, KnownGrows
<1>3. \A i \in Blocks : Vouches(i) \subseteq db => Vouches(i) \subseteq db'
  BY VouchesSchema, SchemaStays
<1>4. k = Len(Body(n)) => Vouches(n) \subseteq db'
  BY <1>2, BodiesSuffice
<1>5. GuardsTell'
  <2> SUFFICES ASSUME NEW i \in Blocks, Guard(i) \cap db' # {}
               PROVE  Vouches(i) \subseteq db' \/ InWindow(i)'
    BY DEF GuardsTell
  <2>1. CASE Guard(i) \cap db # {} /\ ~InWindow(i)
    BY <2>1, <1>3 DEF FileInv, GuardsTell
  <2>2. CASE InWindow(i)
    <3>1. i = n /\ k = 2 /\ Program[n].name = "origin"
      BY <2>2 DEF InWindow
    <3>2. Len(Body(n)) = 2
      BY <3>1, OriginBlock
    <3> QED
      BY <3>1, <3>2, <1>4
  <2>3. CASE Guard(i) \cap db = {}
    <3>1. CASE Vouches(i) \subseteq db'
      BY <3>1
    <3>2. CASE i = n /\ k = 1 /\ Program[n].name = "origin"
      BY <3>2, OriginBlock DEF InWindow
    <3> QED
      BY <2>3, <3>1, <3>2, <1>1, MadeFactsTell
  <2> QED
    BY <2>1, <2>2, <2>3
<1>6. VendorsNeedOrigin'
  <2> SUFFICES ASSUME Vendors \in db' PROVE Origin \in db'
    BY DEF VendorsNeedOrigin
  <2>1. CASE Vendors \in db
    BY <2>1, SchemaStays, VendorsComeSecond DEF FileInv, VendorsNeedOrigin
  <2>2. CASE Vendors \notin db
    <3>1. ~Passed(Body(n)[k], db) /\ Vendors \in Body(n)[k].adds
      BY <2>2 DEF After
    <3>2. Origin \in Body(n)[k].adds \cup Known(n, k)
      BY <3>1, VendorsComeSecond
    <3> QED
      BY <3>1, <3>2, <1>1, StatementMakes, KnownGrows
  <2> QED
    BY <2>1, <2>2
<1>7. PassedBlocks'
  <2> SUFFICES ASSUME NEW i \in Blocks, i < at'.block PROVE Vouches(i) \subseteq db'
    BY DEF PassedBlocks
  <2>1. CASE i < n
    BY <2>1, <1>3 DEF FileInv, PassedBlocks
  <2>2. CASE ~ (i < n)
    <3>1. i = n /\ k = Len(Body(n))
      BY <2>2, ProgramShape DEF Blocks
    <3> QED
      BY <3>1, <1>4
  <2> QED
    BY <2>1, <2>2
<1>8. PassedStatements'
  <2>1. \A j \in Statements(n) : j < k + 1 => Ensures(Body(n)[j]) \subseteq Known(n, k + 1)
    BY EnsuresSchema DEF Known
  <2> QED
    BY <2>1, <1>2 DEF PassedStatements, Statements
<1>9. JustEntered'
  BY DEF JustEntered, Statements
<1>10. VendorsToCome'
  <2> SUFFICES ASSUME NEW i \in Blocks, InWindow(i)' PROVE Vendors \notin db'
    BY DEF VendorsToCome
  <2>1. i = n /\ k = 1 /\ Program[n].name = "origin"
    BY DEF InWindow, Statements
  <2>2. Origin \notin db
    BY <2>1, OriginBlock DEF FileInv, JustEntered
  <2>3. Vendors \notin db
    BY <2>2 DEF FileInv, VendorsNeedOrigin
  <2> QED
    BY <2>1, <2>3, OriginBlock, AddColumnMeans DEF Origin, Vendors
<1> QED
  BY <1>5, <1>6, <1>7, <1>8, <1>9, <1>10 DEF FileInv

LEMMA RunKeeps == StartInv /\ Run => StartInv'
<1> SUFFICES ASSUME StartInv, Run PROVE StartInv'
  OBVIOUS
<1> DEFINE n == at.block
           k == at.stmt
<1>1. n \in Blocks /\ at = [block |-> n, stmt |-> k] /\ process = "starting"
  BY DEF Run, InProgram, StartInv, StartTypes, Blocks
<1>2. k \in Statements(n)
  BY <1>1, ProgramShape DEF Run, StartInv, StartTypes, Statements, Blocks
<1>3. /\ ~Fails(Body(n)[k], Facts) /\ db' = After(Body(n)[k], db)
      /\ at' = IF k = Len(Body(n)) THEN [block |-> n + 1, stmt |-> 0]
                                   ELSE [block |-> n, stmt |-> k + 1]
      /\ process' = process /\ deaths' = deaths
  BY <1>1 DEF Run, Here, NextBlock, Body
<1>4. StartTypes'
  BY <1>1, <1>2, <1>3, ProgramShape DEF StartInv, StartTypes, Blocks, Statements
<1>5. KilledIn("origin")' <=> KilledIn("origin")
  BY <1>3 DEF KilledIn
<1>6. ASSUME FileInv PROVE FileInv'
  BY <1>1, <1>2, <1>3, <1>6, RunFile DEF StartInv
<1> QED
  BY <1>4, <1>5, <1>6 DEF StartInv

-----------------------------------------------------------------------------
(* The end of a process, and what follows the program. *)

\* Nothing else can happen to a file that is closed and not in the window.
LEMMA DownKeeps ==
  ASSUME FileInv, \A n \in Blocks : ~InWindow(n), db' = db, process' = "down"
  PROVE  FileInv'
BY DEF FileInv, GuardsTell, VendorsNeedOrigin, PassedBlocks, PassedStatements, JustEntered,
       VendorsToCome, InWindow

LEMMA RunFailsKeeps == StartInv /\ RunFails => StartInv'
<1> SUFFICES ASSUME StartInv, RunFails PROVE StartInv'
  OBVIOUS
<1>1. StartTypes'
  BY DEF RunFails, StartInv, StartTypes
<1>2. KilledIn("origin")' <=> KilledIn("origin")
  BY DEF RunFails, KilledIn
<1>3. ASSUME FileInv PROVE FileInv'
  <2>1. \A n \in Blocks : ~InWindow(n)
    BY <1>3, WindowRuns DEF RunFails, Here, Body, InWindow
  <2> QED
    BY <1>3, <2>1, DownKeeps DEF RunFails
<1> QED
  BY <1>1, <1>2, <1>3 DEF StartInv

LEMMA DieKeeps == StartInv /\ Die => StartInv'
<1> SUFFICES ASSUME StartInv, Die PROVE StartInv'
  OBVIOUS
<1>1. deaths \in Seq([block : Nat, stmt : Nat]) /\ at \in [block : Nat, stmt : Nat]
  BY ProgramShape DEF StartInv, StartTypes
<1>2. StartTypes'
  BY <1>1 DEF Die, StartInv, StartTypes
<1>3. KilledIn("origin") => KilledIn("origin")'
  BY <1>1, KilledStays DEF Die
<1>4. ASSUME NEW n \in Blocks, InWindow(n) PROVE KilledIn("origin")'
  <2> DEFINE i == Len(deaths) + 1
  <2>1. i \in DOMAIN deaths' /\ deaths'[i] = at
    BY <1>1 DEF Die
  <2>2. /\ at.block <= Len(Program) /\ Program[at.block].name = "origin"
        /\ at.stmt \in Unrepeatable["origin"]
    BY <1>4 DEF InWindow, Unrepeatable, Blocks
  <2> QED
    BY <2>1, <2>2 DEF KilledIn
<1>5. ASSUME FileInv, ~KilledIn("origin")' PROVE FileInv'
  BY <1>4, <1>5, DownKeeps DEF Die
<1> QED
  BY <1>2, <1>3, <1>5 DEF StartInv

\* What follows the program adds to the file nothing but the mark of 001.
LEMMA OwnerFile ==
  ASSUME StartTypes, FileInv, at.block > Len(Program), process = "starting",
         db' \in {db, db \cup {"001"}}, process' # "down" => at'.block > Len(Program)
  PROVE  FileInv'
<1>1. \A n \in Blocks : Guard(n) \cap db' = Guard(n) \cap db
  BY OutsideFacts
<1>2. \A n \in Blocks : n < at.block /\ ~InWindow(n)
  BY ProgramShape DEF Blocks, InWindow, StartTypes
<1>3. \A n \in Blocks : process' # "down" => at'.block # n
  BY ProgramShape DEF Blocks
<1>4. \A n \in Blocks : Vouches(n) \subseteq db'
  BY <1>2 DEF FileInv, PassedBlocks
<1>5. VendorsNeedOrigin'
  BY DEF FileInv, VendorsNeedOrigin, Vendors
<1> QED
  BY <1>3, <1>4, <1>5
     DEF FileInv, GuardsTell, PassedBlocks, PassedStatements, JustEntered, VendorsToCome, InWindow

LEMMA OwnerKeeps ==
  StartInv /\ (EnsureAdmin \/ Consolidate \/ FirstUser \/ Listen) => StartInv'
<1> SUFFICES ASSUME StartInv, EnsureAdmin \/ Consolidate \/ FirstUser \/ Listen
             PROVE  StartInv'
  OBVIOUS
<1> USE DEF EnsureAdmin, Consolidate, FirstUser, Listen, AtOwner, NextBlock
<1>1. StartTypes'
  <2> USE ProgramShape DEF StartInv, StartTypes, Blocks
  <2>1. CASE EnsureAdmin \/ Consolidate
    BY <2>1
  <2>2. CASE FirstUser
    BY <2>2
  <2>3. CASE Listen
    BY <2>3
  <2> QED
    BY <2>1, <2>2, <2>3
<1>2. KilledIn("origin")' <=> KilledIn("origin")
  BY DEF KilledIn
<1>3. /\ at.block > Len(Program) /\ process = "starting" /\ db' \in {db, db \cup {"001"}}
      /\ process' # "down" => at'.block > Len(Program)
  BY ProgramShape DEF StartInv, StartTypes
<1>4. ASSUME FileInv PROVE FileInv'
  BY <1>3, <1>4, OwnerFile DEF StartInv
<1> QED
  BY <1>1, <1>2, <1>4 DEF StartInv

LEMMA StartupStep == StartInv /\ [StartNext]_startVars => StartInv'
<1> SUFFICES ASSUME StartInv, [StartNext]_startVars PROVE StartInv'
  OBVIOUS
<1>1. CASE UNCHANGED startVars
  BY <1>1
     DEF startVars, StartInv, StartTypes, KilledIn, FileInv, GuardsTell, VendorsNeedOrigin,
         PassedBlocks, PassedStatements, JustEntered, VendorsToCome, InWindow
<1>2. CASE StartNext
  BY <1>2, StartKeeps, EnterKeeps, RunKeeps, RunFailsKeeps, OwnerKeeps, DieKeeps
     DEF StartNext, Proceed
<1> QED
  BY <1>1, <1>2

\* From the file of every release, for any accounts and any number of killed
\* starts: a server that listens has every table, column and constraint its
\* queries rely on, unless a start was killed between the two columns of the
\* first repair.
THEOREM WholeSchemaServed == StartSpec => []ServesWholeSchema
<1>1. StartInv => ServesWholeSchema
  <2> SUFFICES ASSUME StartInv, process = "serving", ~KilledIn("origin")
               PROVE  CurrentSchema \subseteq db
    BY DEF ServesWholeSchema
  <2>1. \A n \in Blocks : Vouches(n) \subseteq db
    BY ProgramShape DEF StartInv, StartTypes, FileInv, PassedBlocks, Blocks
  <2> QED
    BY <2>1, SchemaIsMade
<1> QED
  BY <1>1, StartInitInv, StartupStep, PTL DEF StartSpec

-----------------------------------------------------------------------------
(* No statement fails. *)

\* Unless it is torn, the file is one that is known at the place reached.
FileKnown ==
  /\ process # "starting" \/ at.block = Len(Program) + 2 => db \in Files
  /\ process = "starting" /\ at.block = Len(Program) + 1 => db \in Passing[Len(Program) + 1][0]
  /\ \A n \in Blocks : \A k \in 0..Len(Body(n)) :
       process = "starting" /\ at = [block |-> n, stmt |-> k] => db \in Passing[n][k]

FilesInv == StartInv /\ (~Torn => FileKnown)

LEMMA TornStays ==
  ASSUME deaths \in Seq([block : Nat, stmt : Nat]), NEW d,
         deaths' = deaths \/ deaths' = Append(deaths, d), Torn
  PROVE  Torn'
<1>1. PICK name \in DOMAIN Unrepeatable : KilledIn(name)
  BY DEF Torn
<1>2. KilledIn(name)'
  BY <1>1, KilledStays
<1> QED
  BY <1>2 DEF Torn, Unrepeatable

\* Wherever a process is killed, either it tears the file or it leaves a known one.
LEMMA DeathLeavesFile ==
  ASSUME StartInv, ~Torn => FileKnown, Die, ~Torn'
  PROVE  db \in Files
<1>1. deaths \in Seq([block : Nat, stmt : Nat]) /\ at \in [block : Nat, stmt : Nat]
  BY ProgramShape DEF StartInv, StartTypes
<1>2. FileKnown
  BY <1>1, TornStays DEF Die
<1>3. CASE at.block \notin Blocks
  <2>1. at.block \in {Len(Program) + 1, Len(Program) + 2}
    BY <1>3, ProgramShape DEF Blocks, StartInv, StartTypes
  <2> QED
    BY <1>2, <2>1, FilesAreLeft DEF FileKnown
<1>4. CASE at.block \in Blocks
  <2> DEFINE n == at.block
             k == at.stmt
             i == Len(deaths) + 1
  <2>1. at = [block |-> n, stmt |-> k] /\ k \in 0..Len(Body(n)) /\ process = "starting"
    BY <1>1, <1>4, ProgramShape DEF StartInv, StartTypes, Blocks, Die
  <2>2. i \in DOMAIN deaths' /\ deaths'[i] = at
    BY <1>1 DEF Die
  <2>3. ~TearsAt(n, k)
    <3> SUFFICES ASSUME NEW name \in DOMAIN Unrepeatable,
                        Program[n].name = name, k \in Unrepeatable[name]
                 PROVE  FALSE
      BY DEF TearsAt
    <3>1. KilledIn(name)'
      BY <1>4, <2>2 DEF KilledIn, Blocks, Unrepeatable
    <3> QED
      BY <3>1 DEF Torn, Unrepeatable
  <2> QED
    BY <1>2, <1>4, <2>1, <2>3, FilesAreLeft DEF FileKnown
<1> QED
  BY <1>3, <1>4

\* What fails needs addresses, and there is somebody without one; or it gives a
\* plan that the table does not allow.
LEMMA WhatFails ==
  ASSUME StartInv, FileKnown, RunFails
  PROVE  \/ Here.name \in {"020", "026"} /\ addressed # accounts
         \/ Here.name = "016" /\ admins # {} /\ "users.narrow_plan" \in db
<1> DEFINE n == at.block
           k == at.stmt
<1>1. n \in Blocks /\ k \in Statements(n) /\ at = [block |-> n, stmt |-> k]
  BY ProgramShape DEF RunFails, InProgram, StartInv, StartTypes, Blocks, Statements
<1>2. db \in Passing[n][k] /\ Fails(Body(n)[k], Facts)
  BY <1>1 DEF RunFails, InProgram, Here, Body, Statements, FileKnown
<1>3. PICK rows \in SUBSET RowFacts :
        /\ Facts = db \cup rows
        /\ "everybody addressed" \notin rows => addressed # accounts
        /\ "admin on a narrow plan" \in rows => admins # {} /\ "users.narrow_plan" \in db
  BY FactsAre
<1>4. \/ Program[n].name \in {"020", "026"} /\ "everybody addressed" \notin rows
      \/ Program[n].name = "016" /\ "admin on a narrow plan" \in rows
  BY <1>1, <1>2, <1>3, NothingFails
<1> QED
  BY <1>3, <1>4 DEF Here

LEMMA FileKnownStays ==
  ASSUME StartInv, FileKnown, Proceed
  PROVE  FileKnown'
<1> USE DEF FileKnown
<1>1. CASE Start
  BY <1>1, ProgramShape, FilesAreFound DEF Start, StartInv, StartTypes, Blocks
<1>2. CASE Enter
  <2> DEFINE n == at.block
  <2>1. n \in Blocks /\ at = [block |-> n, stmt |-> 0] /\ db \in Passing[n][0]
    BY <1>2, ProgramShape DEF Enter, InProgram, StartInv, StartTypes, Blocks
  <2>2. \/ at' = [block |-> n, stmt |-> 1] /\ db \in Passing[n][1]
        \/ at' = [block |-> n + 1, stmt |-> 0] /\ db \in Passing[n + 1][0]
    BY <1>2, <2>1, ProgramShape, GuardsPass DEF Enter, Here, NextBlock, Guard, Body
  <2>3. db' = db /\ process' = "starting"
    BY <1>2 DEF Enter, InProgram
  <2> QED
    BY <2>1, <2>2, <2>3, ProgramShape DEF Blocks
<1>3. CASE Run
  <2> DEFINE n == at.block
             k == at.stmt
  <2>1. n \in Blocks /\ k \in Statements(n) /\ at = [block |-> n, stmt |-> k]
    BY <1>3, ProgramShape DEF Run, InProgram, StartInv, StartTypes, Blocks, Statements
  <2>2. db \in Passing[n][k] /\ process' = "starting" /\ db' = After(Body(n)[k], db)
    BY <1>3, <2>1 DEF Run, InProgram, Here, Body, Statements
  <2>3. \/ at' = [block |-> n + 1, stmt |-> 0] /\ db' \in Passing[n + 1][0]
        \/ at' = [block |-> n, stmt |-> k + 1] /\ db' \in Passing[n][k + 1]
    BY <1>3, <2>1, <2>2, StatementsPass DEF Run, Here, NextBlock, Body
  <2> QED
    BY <2>1, <2>2, <2>3, ProgramShape DEF Blocks, Statements
<1>4. CASE RunFails
  <2> DEFINE n == at.block
             k == at.stmt
  <2>1. n \in Blocks /\ k \in Statements(n) /\ at = [block |-> n, stmt |-> k]
    BY <1>4, ProgramShape DEF RunFails, InProgram, StartInv, StartTypes, Blocks, Statements
  <2>2. db \in Passing[n][k]
    BY <1>4, <2>1 DEF RunFails, InProgram, Statements
  <2>3. Program[n].name \in {"016", "020", "026"}
    BY <1>4, WhatFails DEF Here
  <2>4. ~TearsAt(n, k)
    BY <2>3 DEF TearsAt, Unrepeatable
  <2>5. db \in Files
    BY <2>1, <2>2, <2>4, FilesAreLeft DEF Statements
  <2> QED
    BY <1>4, <2>1, <2>5, ProgramShape DEF RunFails, Blocks
<1>5. CASE EnsureAdmin \/ Consolidate \/ FirstUser
  <2> USE <1>5 DEF EnsureAdmin, Consolidate, FirstUser, AtOwner, NextBlock
  <2>1. db \in Passing[Len(Program) + 1][0] /\ at.block = Len(Program) + 1
    BY ProgramShape
  <2>2. {db, db \cup {"001"}} \subseteq Files
    BY <2>1, FilesAreLeft
  <2>3. db' \in Files
    BY <2>2
  <2>4. \/ process' = "down"
        \/ at'.block = Len(Program) + 2
        \/ process' = "starting" /\ at'.block = Len(Program) + 1 /\ db' = db
    BY <2>1, ProgramShape DEF StartInv, StartTypes
  <2> QED
    BY <2>1, <2>3, <2>4, ProgramShape DEF Blocks
<1>6. CASE Listen
  BY <1>6, ProgramShape DEF Listen, Blocks
<1> QED
  BY <1>1, <1>2, <1>3, <1>4, <1>5, <1>6 DEF Proceed

LEMMA InitKnown == StartInit => FileKnown
<1> SUFFICES ASSUME StartInit PROVE db \in OldFiles
  BY FilesAreFound, ProgramShape DEF StartInit, FileKnown
<1>1. CASE db = {}
  BY <1>1 DEF OldFiles
<1>2. CASE db # {}
  BY <1>2 DEF StartInit, OldFiles
<1> QED
  BY <1>1, <1>2

LEMMA FilesStep == FilesInv /\ [StartNext]_startVars => FilesInv'
<1> SUFFICES ASSUME FilesInv, [StartNext]_startVars, ~Torn' PROVE FileKnown'
  BY StartupStep DEF FilesInv
<1>1. CASE UNCHANGED startVars
  BY <1>1 DEF startVars, FilesInv, FileKnown, Torn, KilledIn
<1>2. CASE Proceed
  <2>1. deaths' = deaths
    BY <1>2
       DEF Proceed, Start, Enter, Run, RunFails, EnsureAdmin, Consolidate, FirstUser, Listen
  <2>2. Torn' <=> Torn
    BY <2>1 DEF Torn, KilledIn
  <2> QED
    BY <1>2, <2>2, FileKnownStays DEF FilesInv
<1>3. CASE Die
  <2>1. db \in Files /\ db' = db /\ process' = "down"
    BY <1>3, DeathLeavesFile DEF FilesInv, Die
  <2> QED
    BY <2>1 DEF FileKnown
<1> QED
  BY <1>1, <1>2, <1>3 DEF StartNext

\* From the file of every release, for any accounts and any number of killed
\* starts that have not torn it: no statement of a start fails, but for the
\* two that fill a new users table, when an account has no address, and for the
\* one that gives admins their plan, when the table is old and has an admin.
THEOREM NoStatementFails == StartSpec => NoStartFails
<1>1. StartInit => FilesInv
  BY StartInitInv, InitKnown DEF FilesInv
<1>2. FilesInv /\ [StartNext]_startVars =>
        [RunFails /\ ~Torn =>
           \/ Here.name \in {"020", "026"} /\ addressed # accounts
           \/ Here.name = "016" /\ admins # {} /\ "users.narrow_plan" \in db]_startVars
  BY WhatFails DEF FilesInv
<1> QED
  BY <1>1, <1>2, FilesStep, PTL DEF StartSpec, NoStartFails
=============================================================================
