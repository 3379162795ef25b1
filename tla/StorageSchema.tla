----------------------------- MODULE StorageSchema -----------------------------
(***************************************************************************)
(* Opening the daemon's database: sixteen migrations, each one a           *)
(* transaction that ends by writing its version, run from wherever the     *)
(* file stands, and started again when the daemon was killed or the disk   *)
(* refused.                                                                *)
(*                                                                         *)
(* A column is there or not, and the settings the migrations rewrite have  *)
(* a value; the swipe columns stand for their actions. Adding a column     *)
(* that is there is an error, as in SQLite.                                *)
(***************************************************************************)
EXTENDS Naturals, Sequences, FiniteSets, Functions

CONSTANTS None, SchemaFaults   \* bound: kills and refused statements

SchemaConstants == None \notin {"migrating", "opened"}

Last == 16

Add(cols)        == [op |-> "add",    cols |-> cols]
AddMissing(cols) == [op |-> "ensure", cols |-> cols]
Rewrite(col, from, to) == [op |-> "rewrite", cols |-> {col}, from |-> from, to |-> to]
Invert           == [op |-> "invert", cols |-> {"invert"}]

\* A value of an older scheme, which a migration rewrites
Legacy  == "legacy"
Current == "current"

Default == [hz |-> Current, debounce |-> Current, endpoint |-> Current,
            color |-> 0, layouts |-> 0, gpio |-> 0, state |-> 0, taps |-> 0,
            song |-> 0, peak |-> 0, sideways |-> 0, invert |-> 0, updown |-> "up",
            modifiers |-> 0, animations |-> 0]
Columns == DOMAIN Default

\* apply_v1 to apply_v8
ConfigMigrations == <<
    <<AddMissing({"hz", "debounce", "endpoint"})>>,
    <<Add({"color"})>>,
    <<AddMissing({"layouts"})>>,
    <<Rewrite("hz", Legacy, Current)>>,
    <<Rewrite("endpoint", Legacy, Current)>>,
    <<Add({"gpio"})>>,
    <<AddMissing({"state"})>>,
    <<Rewrite("debounce", Legacy, Current)>> >>

\* apply_v9 to apply_v11
TapMigrations ==
    <<<<AddMissing({"taps"})>>, <<AddMissing({"song"})>>, <<AddMissing({"peak"})>>>>

\* apply_v12 to apply_v16
SwipeMigrations == <<
    <<AddMissing({"sideways"})>>,
    <<AddMissing({"invert"})>>,
    <<AddMissing({"updown"}), Invert>>,
    <<AddMissing({"modifiers"})>>,
    <<AddMissing({"animations"})>> >>

Migrations == ConfigMigrations \o TapMigrations \o SwipeMigrations

\* What load_config and the statements of a running daemon read
Needed == Columns \ {"invert"}

VARIABLES
    file,     \* the database on disk: its version, and its columns with values
    open,     \* the connection: None, "migrating", or "opened"
    tx,       \* the transaction under way: its next statement and its rows
    was,      \* history: the database before the first open
    faults

svars == <<file, open, tx, was, faults>>

-----------------------------------------------------------------------------

\* The columns a database of version v has
ColumnsOf(v) ==
    (UNION {Migrations[k][1].cols : k \in {k \in 1 .. v : Migrations[k][1].op # "rewrite"}})
        \ (IF v >= 14 THEN {"invert"} ELSE {})

SchemaInit ==
    /\ \E v \in 0 .. Last, hz, debounce \in {Legacy, Current, "own"}, invert \in {0, 1},
          updown \in {"up", "swapped", "other"} :
           file = [version |-> v,
                   row |-> [c \in ColumnsOf(v) |->
                               CASE c = "hz" -> hz [] c = "debounce" -> debounce
                                 [] c = "endpoint" -> IF v < 5 THEN Legacy ELSE Current
                                 [] c = "invert" -> invert [] c = "updown" -> updown
                                 [] OTHER -> Default[c]]]
    /\ open = None /\ tx = None /\ was = file /\ faults = SchemaFaults

\* Storage::open
Opens ==
    /\ open = None /\ open' = "migrating"
    /\ UNCHANGED <<file, tx, was, faults>>

\* Mutant: one migration too many
BehindOrAt == file.version <= Last

Behind == file.version < Last

\* migrate: the next version the file lacks
Begins ==
    /\ open = "migrating" /\ tx = None
    /\ IF Behind
         THEN tx' = [at |-> 1, row |-> file.row] /\ UNCHANGED open
         ELSE open' = "opened" /\ UNCHANGED tx
    /\ UNCHANGED <<file, was, faults>>

Pending == Migrations[file.version + 1]

Refused(s, row) == s.op = "add" /\ s.cols \cap DOMAIN row # {}

\* Mutant: the flag goes before it is read
DropsFirst(row) ==
    Restrict(row, DOMAIN row \ {"invert"})

\* v14: the inverted flag becomes swapped actions, then goes
Inverted(row) ==
    IF "invert" \notin DOMAIN row THEN row
    ELSE Restrict([row EXCEPT !["updown"] = IF row["invert"] = 1 THEN "swapped" ELSE @],
                  DOMAIN row \ {"invert"})

Executed(s, row) ==
    CASE s.op \in {"add", "ensure"} ->
             [c \in DOMAIN row \cup s.cols |-> IF c \in DOMAIN row THEN row[c] ELSE Default[c]]
      [] s.op = "rewrite" -> [c \in DOMAIN row |-> IF c \in s.cols /\ row[c] = s.from
                                                     THEN s.to ELSE row[c]]
      [] s.op = "invert"  -> Inverted(row)

\* An error leaves the transaction to be rolled back, and open fails
Fails == open' = None /\ tx' = None

Statement ==
    /\ tx # None /\ tx.at <= Len(Pending)
    /\ LET s == Pending[tx.at] IN
       IF Refused(s, tx.row) THEN Fails
       ELSE tx' = [at |-> tx.at + 1, row |-> Executed(s, tx.row)] /\ UNCHANGED open
    /\ UNCHANGED <<file, was, faults>>

\* Mutant: the version is written outside the transaction
WritesVersionFirst == [version |-> file.version + 1, row |-> file.row]

WritesBoth == [version |-> file.version + 1, row |-> tx.row]

\* The version's row and COMMIT
Commits ==
    /\ tx # None /\ tx.at > Len(Pending)
    /\ file' = WritesBoth /\ tx' = None
    /\ UNCHANGED <<open, was, faults>>

\* The daemon is killed, or the disk refuses a statement
Dies ==
    /\ open # None /\ faults > 0 /\ faults' = faults - 1 /\ Fails
    /\ UNCHANGED <<file, was>>

SchemaNext == Opens \/ Begins \/ Statement \/ Commits \/ Dies

SchemaFairness == WF_svars(Opens \/ Begins \/ Statement \/ Commits)

SchemaSpec == SchemaInit /\ [][SchemaNext]_svars /\ SchemaFairness

-----------------------------------------------------------------------------
(* Properties *)

SchemaTypeOK ==
    /\ file.version \in 0 .. Last /\ DOMAIN file.row \subseteq Columns
    /\ open \in {None, "migrating", "opened"}
    /\ tx # None => open = "migrating" /\ file.version < Last /\ tx.at \in 1 .. Len(Pending) + 1

\* What the player had set before the upgrade, an inverted swipe included, and
\* nothing else: the old defaults alone were rewritten.
Kept(c) ==
    LET old == was.row[c] IN
    CASE c = "hz" /\ was.version < 4       -> IF old = Legacy THEN Current ELSE old
      [] c = "debounce" /\ was.version < 8 -> IF old = Legacy THEN Current ELSE old
      [] c = "endpoint"                    -> Current
      [] OTHER                             -> old

\* A database that opened has every column the daemon reads and what the player
\* had set, whichever version it was and wherever an open before was cut off.
OpenedIsWhole ==
    open = "opened" =>
        /\ DOMAIN file.row = Needed
        /\ \A c \in DOMAIN was.row \cap Needed :
             c # "updown" => file.row[c] = Kept(c)
        /\ file.row["updown"] =
               IF "invert" \in DOMAIN was.row /\ was.row["invert"] = 1 THEN "swapped"
               ELSE IF "updown" \in DOMAIN was.row THEN was.row["updown"] ELSE "up"

\* No cut leaves a database that can never be opened again.
Opened == open = "opened"
===============================================================================
