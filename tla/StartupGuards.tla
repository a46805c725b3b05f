---------------------------- MODULE StartupGuards ----------------------------
(***************************************************************************)
(* What the guards of the start-up program are worth, and the files that   *)
(* its starts meet.                                                        *)
(*                                                                         *)
(* A block is passed over when its guard finds one fact, so that fact has  *)
(* to tell that everything the block makes is there, however the file came *)
(* about; and no statement may trip over what an older release or a killed *)
(* start has left.  The conditions that make it so are about the text of   *)
(* the program alone: no constant and no variable occurs in them, and      *)
(* TLC's evaluation of them is complete, whatever instance it checks.      *)
(* They are what StartupProofs needs to know of the program.               *)
(***************************************************************************)
EXTENDS Startup

Blocks == 1..Len(Program)
Body(n) == Program[n].body
Guard(n) == Program[n].unless
Statements(n) == 1..Len(Body(n))

\* What of the schema is there after s, run or passed over.
Ensures(s) ==
  {c \in CurrentSchema \cap (s.adds \cup s.needs) :
     s.when \subseteq CurrentSchema /\ s.unless \subseteq {c}}

\* What of the schema is there when the guard of the n-th block has found one
\* of its facts: what the block makes, but for three that commit in pieces.
Vouches(n) ==
  IF Program[n].name \in {"schema", "email", "columns"}
  THEN {c \in CurrentSchema : Guard(n) \subseteq {c}}
  ELSE {c \in CurrentSchema : \E k \in Statements(n) : c \in Ensures(Body(n)[k])}

\* What of the schema is there before the k-th statement of the n-th block.
Known(n, k) ==
  {c \in CurrentSchema : \/ \E i \in Blocks : i < n /\ c \in Vouches(i)
                         \/ \E j \in Statements(n) : j < k /\ c \in Ensures(Body(n)[j])}

Vendors == "memories.allowed_vendors"
Origin == "memories.origin"

\* Guards tell what they vouch for.
Closed(f) ==
  /\ \A n \in Blocks : Guard(n) \cap f # {} => Vouches(n) \subseteq f
  /\ Vendors \in f => Origin \in f

-----------------------------------------------------------------------------
ASSUME ProgramShape ==
  /\ Len(Program) \in Nat
  /\ \A n \in Blocks : Len(Body(n)) \in Nat \ {0}

\* The blocks together make the whole schema, and none of them takes a part of
\* it away.
ASSUME SchemaIsMade ==
  /\ CurrentSchema \subseteq UNION {Vouches(n) : n \in Blocks}
  /\ \A n \in Blocks : \A k \in Statements(n) : Body(n)[k].drops \cap CurrentSchema = {}

\* A block that has run has made what its guard vouches for.
ASSUME BodiesSuffice ==
  \A n \in Blocks : Vouches(n) \subseteq Known(n, Len(Body(n)) + 1)

\* A fact that a guard looks for is made last: with it, everything the guard
\* vouches for is there.  The block that adds origin first is the exception.
ASSUME GuardFactsComeLast ==
  \A n \in Blocks : \A k \in Statements(n) : \A i \in Blocks :
    Body(n)[k].adds \cap Guard(i) # {} =>
      \/ Vouches(i) \subseteq Known(n, k) \cup Body(n)[k].adds
                                         \cup (Body(n)[k].needs \cap CurrentSchema)
      \/ i = n /\ k = 1 /\ Program[n].name = "origin"

\* A statement that waits for a part of the schema comes after it.
ASSUME WaitsAreOver ==
  \A n \in Blocks : \A k \in Statements(n) :
    Body(n)[k].when \subseteq CurrentSchema => Body(n)[k].when \subseteq Known(n, k)

\* Rows and marks that are no part of the program do not mislead it.
ASSUME OutsideFacts ==
  /\ RowFacts \cap CurrentSchema = {}
  /\ \A n \in Blocks :
       /\ Guard(n) \cap {"001", "users.narrow_plan"} = {}
       /\ \A k \in Statements(n) : RowFacts \cap (Body(n)[k].when \cup Body(n)[k].unless) = {}

\* Only after origin is allowed_vendors added.
ASSUME VendorsComeSecond ==
  /\ {"memories", Origin, Vendors} \subseteq CurrentSchema
  /\ \A n \in Blocks :
       /\ Program[n].name = "origin" => Program[n] = Repairs[1]
       /\ \A k \in Statements(n) :
            Vendors \in Body(n)[k].adds => Origin \in Body(n)[k].adds \cup Known(n, k)

\* The file of every release is closed.
ASSUME ReleasesAreClosed == \A n \in DOMAIN Released : Closed(Released[n])

-----------------------------------------------------------------------------
(* The files that starts meet. *)

\* A process killed there leaves a file that a guard misjudges.
TearsAt(n, k) ==
  \E name \in DOMAIN Unrepeatable : Program[n].name = name /\ k \in Unrepeatable[name]

\* What the first k statements of the n-th block make of the file f.
Partly(n, k, f) == FoldLeft(LAMBDA g, s : After(s, g), f, SubSeq(Body(n), 1, k))

\* A start from one of files comes by one of PassingFrom(files)[n][k] before the
\* k-th statement of the n-th block; before its guard for k = 0.
PassingFrom(files) ==
  LET Entered(n, f) == Guard(n) \cap f = {}
      found[n \in 1..(Len(Program) + 1)] ==
        IF n = 1 THEN files
        ELSE {IF Entered(n - 1, f) THEN Partly(n - 1, Len(Body(n - 1)), f) ELSE f :
                f \in found[n - 1]}
      within(n, k) == {Partly(n, k - 1, f) : f \in {g \in found[n] : Entered(n, g)}}
  IN  [n \in 1..(Len(Program) + 1) |->
         [k \in 0..(IF n \in Blocks THEN Len(Body(n)) ELSE 0) |->
            IF k = 0 THEN found[n] ELSE within(n, k)]]

\* What starts from files leave when they are killed or done.
Leave(files) ==
  LET passing == PassingFrom(files)
  IN  UNION {UNION {passing[n][k] : k \in {j \in DOMAIN passing[n] : ~TearsAt(n, j)}} :
             n \in Blocks}
        \cup {f \cup mark : f \in passing[Len(Program) + 1][0], mark \in {{}, {"001"}}}

OldFiles ==
  {{}} \cup UNION {{Released[n] \cup narrow \cup consolidated :
                      narrow \in NarrowPlan(Released[n]), consolidated \in {{}, {"001"}}} :
                   n \in DOMAIN Released}

\* A fourth start leaves nothing that three have not left.
Files == Leave(Leave(Leave(OldFiles)))
Passing == PassingFrom(Files)

\* A start finds one of Files ...
ASSUME FilesAreFound == OldFiles \subseteq Files /\ Files \subseteq Passing[1][0]

\* ... and leaves one, wherever it is killed and when it is done.
ASSUME FilesAreLeft ==
  /\ \A n \in Blocks : \A k \in 0..Len(Body(n)) : ~TearsAt(n, k) => Passing[n][k] \subseteq Files
  /\ \A f \in Passing[Len(Program) + 1][0] : {f, f \cup {"001"}} \subseteq Files

\* On its way it comes by those of Passing, ...
ASSUME GuardsPass ==
  \A n \in Blocks : \A f \in Passing[n][0] :
    f \in IF Guard(n) \cap f = {} THEN Passing[n][1] ELSE Passing[n + 1][0]

ASSUME StatementsPass ==
  \A n \in Blocks : \A k \in Statements(n) : \A f \in Passing[n][k] :
    After(Body(n)[k], f) \in IF k = Len(Body(n)) THEN Passing[n + 1][0] ELSE Passing[n][k + 1]

\* ... and with none of them does a statement fail, whatever the rows, but where
\* it needs addresses that are missing or meets an admin on an old plan.
ASSUME NothingFails ==
  \A n \in Blocks : \A k \in Statements(n) : \A f \in Passing[n][k] : \A rows \in SUBSET RowFacts :
    Fails(Body(n)[k], f \cup rows) =>
      \/ Program[n].name \in {"020", "026"} /\ "everybody addressed" \notin rows
      \/ Program[n].name = "016" /\ "admin on a narrow plan" \in rows
=============================================================================
