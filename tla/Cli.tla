--------------------------------- MODULE Cli ---------------------------------
(***************************************************************************)
(* The program of a @Command class: how the words of the command line become *)
(* its fields (emit_cli_code of the code generator and the tinox_cli_*       *)
(* functions of the runtime).  Words are known by their position.            *)
(***************************************************************************)
EXTENDS Annotations

CONSTANTS Dashes,      \* with how many dashes a word begins: 0, 1 or 2
          Number       \* the value of an integer literal

Names(option) == IF option.what = <<>> THEN <<>> ELSE Chars[option.what[1]]
FirstName(option, dashes) == Or(SelectSeq(Names(option), LAMBDA n : Dashes[n] = dashes), "")
Long(option) == FirstName(option, 2)
Short(option) == FirstName(option, 1)

(* Where a flag stands; a long name that is missing is the empty word. *)
Hits(argv, long, short) == {i \in 1..Len(argv) : argv[i] = long \/ (short # "" /\ argv[i] = short)}
tinox_cli_has_flag(argv, long, short) == Hits(argv, long, short) # {}
(* The word behind the first hit that has one, whatever it is. *)
tinox_cli_get_string(argv, long, short) ==
    LET hits == Hits(argv, long, short) \ {Len(argv)} IN IF hits = {} THEN <<>> ELSE <<Min(hits) + 1>>

(* mutant: only the option itself is passed over *)
After_one(argv, i) == i + 1
(* An option takes the next word with it unless that is an option. *)
After(argv, i) == IF Dashes[argv[i]] > 0 /\ i < Len(argv) /\ Dashes[argv[i + 1]] = 0 THEN i + 2 ELSE i + 1
(* Where the loop over the words is after n rounds, and the arguments it meets. *)
Cursor(argv) ==
    LET at[n \in 0..Len(argv)] ==
            IF n = 0 THEN 1 ELSE IF at[n - 1] > Len(argv) THEN at[n - 1] ELSE After(argv, at[n - 1])
    IN  at
Positionals(argv) == {i \in {Cursor(argv)[n] : n \in 0..Len(argv)} : i <= Len(argv) /\ Dashes[argv[i]] = 0}
tinox_cli_get_positional(argv, index) ==
    LET all == Positionals(argv)
        nth == {i \in all : Cardinality({j \in all : j < i}) = index}
    IN  IF nth = {} THEN <<>> ELSE <<CHOOSE i \in nth : TRUE>>

(* What the fields of the command get, and from which words: a flag from those
   that name it, the others from the word at a position. *)
OptionValues(cmd, argv) ==
    Collect(cmd.options, LAMBDA o :
        IF o.type = "Bool" THEN <<[field |-> o.field, flag |-> tinox_cli_has_flag(argv, Long(o), Short(o)), at |-> Hits(argv, Long(o), Short(o))]>>
        ELSE Collect(tinox_cli_get_string(argv, Long(o), Short(o)), LAMBDA i : <<[field |-> o.field, flag |-> FALSE, at |-> {i}]>>))
ArgumentValues(cmd, argv) ==
    Collect(cmd.arguments, LAMBDA a :
        Collect(tinox_cli_get_positional(argv, IF a.what = <<>> THEN 0 ELSE Number[a.what[1]]),
                LAMBDA i : <<[field |-> a.field, flag |-> FALSE, at |-> {i}]>>))

(* The first @Command is the program. *)
emit_cli_code(commands, argv) ==
    LET cmd == commands[1] IN
    CASE tinox_cli_has_flag(argv, "--help", "-h") -> [end |-> "help"]
      [] ~tinox_cli_has_flag(argv, "--help", "-h") /\ tinox_cli_has_flag(argv, "--version", "") -> [end |-> "version"]
      [] OTHER -> [end |-> "run", argv |-> argv, options |-> OptionValues(cmd, argv), arguments |-> ArgumentValues(cmd, argv)]
=============================================================================
