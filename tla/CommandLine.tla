----------------------------- MODULE CommandLine -----------------------------
(***************************************************************************)
(* The server's command line: optionparser's workhorse with the option     *)
(* table of Stringless.cc, and main up to the call of memory_manager.init. *)
(*                                                                         *)
(* An argument is the sequence of its characters, except that the name of  *)
(* a long option and the text of a number or a path count as one.  The     *)
(* parser runs twice with the same outcome; the first run only counts.     *)
(***************************************************************************)
EXTENDS Integers, SequencesExt

CONSTANTS
  Use,     \* the options a user may write, each with its form and argument
  MaxUses  \* bound: options on one command line

(* What whoever gives the constants their values has to assume.            *)
MaxUsesAssumption == MaxUses \in Nat

VARIABLES
  uses,     \* history: what the user wrote
  args,     \* the arguments the parser has not finished with
  group,    \* what is left of a group of short options
  buffer,   \* the options stored, in order
  pc,       \* the parser's or main's place, or how main ended
  settings  \* main's local variables

vars == << uses, args, group, buffer, pc, settings >>

-----------------------------------------------------------------------------
(* The option table.  least is the least number main accepts.              *)

Row(short, long, check, least) ==
  [short |-> short, long |-> long, check |-> check, least |-> least]

usage ==
  << Row("h", "help", "None", 0), Row("c", "clear", "None", 0),
     Row("", "cn", "Numeric", 0), Row("w", "width", "Numeric", 0),
     Row("h", "height", "Numeric", 0), Row("f", "fps", "Numeric", 0),
     Row("p", "flp", "Flp", 0), Row("d", "dsr", "Numeric", 1),
     Row("s", "sr", "Numeric", 1), Row("", "lspf", "Numeric", 1) >>

RowOf(long) == usage[SelectInSeq(usage, LAMBDA row : row.long = long)]

(* Texts strtod takes for numbers, with what std::stoi makes of them: it   *)
(* reads a leading integer and throws when there is none.                  *)
Throws == -1000
stoi == [n \in {"0", "1", "2", "60", "1.5", ".5"} |->
           CASE n = "0" -> 0 [] n \in {"1", "1.5"} -> 1 [] n = "2" -> 2
             [] n = "60" -> 60 [] n = ".5" -> Throws]

IsNumber(arg) ==
  \/ Len(arg) = 1 /\ arg[1] \in DOMAIN stoi
  \/ Len(arg) = 2 /\ arg[1] = "-" /\ arg[2] \in DOMAIN stoi

IntOf(arg) ==
  IF Len(arg) = 1 THEN stoi[arg[1]]
  ELSE IF stoi[arg[2]] = Throws THEN Throws ELSE -stoi[arg[2]]

(* Arg::Numeric and Arg::Flp.  No argument at all is << >> too.            *)
Accepts(check, arg) ==
  IF check = "Numeric" THEN IsNumber(arg) ELSE arg # << >>

(* What main keeps: downsample_ratio is read again as a double.            *)
Kept(long, arg) == IF long \in {"flp", "dsr"} THEN arg ELSE IntOf(arg)

Default == [long \in {usage[k].long : k \in 3 .. Len(usage)} |->
              CASE long = "flp" -> << >> [] long = "dsr" -> << "1" >>
                [] long \in {"sr", "lspf"} -> 1 [] OTHER -> 0]

(* How a use is written: --long=arg, --long arg, -s arg, -sarg; for an     *)
(* option without argument --long, -s and, in a group, -ss.                *)
Written(use) ==
  LET short == << "-", RowOf(use.long).short >>
      long  == << "-", "-", use.long >> IN
  CASE use.form = "long" -> << long >>
    [] use.form = "short" -> << short >>
    [] use.form = "twice" -> << short \o Tail(short) >>
    [] use.form = "--long=arg" -> << long \o << "=" >> \o use.arg >>
    [] use.form = "--long arg" -> << long, use.arg >>
    [] use.form = "-s arg" -> << short, use.arg >>
    [] use.form = "-sarg" -> << short \o use.arg >>

(* --help and --height have the same letter.                               *)
HeightLetter(use) == use.long = "height" /\ use.form \in {"-s arg", "-sarg"}

(* The uses the usage text describes: a flag by itself, any other option   *)
(* with an argument; --cn and --lspf have no letter.  The argument may be  *)
(* anything; only the height given by its letter is a number.              *)
UseAssumption ==
  \A use \in Use :
    /\ \E k \in DOMAIN usage : usage[k].long = use.long
    /\ use.arg \in Seq(STRING)
    /\ use.form \in IF RowOf(use.long).check = "None"
                    THEN {"long", "short", "twice"}
                    ELSE {"--long=arg", "--long arg", "-s arg", "-sarg"}
    /\ use.form \in {"-s arg", "-sarg"} =>
         use.long \notin {"cn", "lspf"}
    /\ HeightLetter(use) => IsNumber(use.arg)
    /\ use.form = "-sarg" => use.arg # << >>

Init ==
  /\ uses \in SeqOf(Use, MaxUses)
  /\ args = FlattenSeq([k \in DOMAIN uses |-> Written(uses[k])])
  /\ group = << >>
  /\ buffer = << >>
  /\ pc = "parse"
  /\ settings = Default

-----------------------------------------------------------------------------
(* Parser::workhorse, one option at a time.                                *)

(* A lone minus is no option, and -- ends the list.                        *)
AtOption ==
  /\ args # << >>
  /\ Len(Head(args)) > 1 /\ Head(args)[1] = "-"
  /\ Head(args) # << "-", "-" >>

(* Faulty variant of Rest: a detached argument is parsed again.            *)
RestKeepsArgument(detached) == Tail(args)

(* The arguments after an option that took one.                            *)
Rest(detached) == IF detached THEN Tail(Tail(args)) ELSE Tail(args)

(* The short options of the first argument that are still to be read.      *)
Group == IF group = << >> THEN Tail(Head(args)) ELSE group

Fail == pc' = "failed" /\ UNCHANGED << args, group, buffer >>

(* check_arg, then perform, for row k of the table.  attached is what      *)
(* follows in the same argument, rest what may be further short options.   *)
Take(k, isAttached, attached, rest) ==
  LET detached == ~isAttached /\ Len(args) > 1
      arg == IF isAttached THEN attached
             ELSE IF detached THEN args[2] ELSE << >> IN
  /\ pc = "parse"
  /\ IF k = 0 THEN Fail
     ELSE IF usage[k].check = "None"
     THEN /\ buffer' = Append(buffer, [long |-> usage[k].long, arg |-> << >>])
          /\ group' = rest
          /\ args' = IF rest = << >> THEN Tail(args) ELSE args
          /\ UNCHANGED pc
     ELSE IF Accepts(usage[k].check, arg)
     THEN /\ buffer' = Append(buffer, [long |-> usage[k].long, arg |-> arg])
          /\ group' = << >>
          /\ args' = Rest(detached)
          /\ UNCHANGED pc
     ELSE Fail
  /\ UNCHANGED << uses, settings >>

LongOption ==
  /\ AtOption /\ Head(args)[2] = "-"
  /\ LET arg == Head(args) IN
     Take(SelectInSeq(usage, LAMBDA row : row.long = arg[3]),
          Len(arg) > 3 /\ arg[4] = "=", SubSeq(arg, 5, Len(arg)), << >>)

ShortOption ==
  /\ AtOption /\ Head(args)[2] # "-"
  /\ Take(SelectInSeq(usage, LAMBDA row : row.short = Head(Group)),
          Len(Group) > 1, Tail(Group), Tail(Group))

(* The list has ended; main looks for --help.                              *)
EndOptions ==
  /\ pc = "parse"
  /\ ~AtOption
  /\ pc' = IF \/ \E k \in DOMAIN buffer : buffer[k].long = "help"
              \/ args = << >> /\ buffer = << >>
           THEN "usage" ELSE "options"
  /\ UNCHANGED << uses, args, group, buffer, settings >>

-----------------------------------------------------------------------------
(* main's loop over the stored options.                                    *)

(* --clear removes the segment and main returns.                           *)
Clear ==
  /\ pc = "options" /\ buffer # << >>
  /\ Head(buffer).long = "clear"
  /\ pc' = "cleared"
  /\ UNCHANGED << uses, args, group, buffer, settings >>

Set ==
  /\ pc = "options" /\ buffer # << >>
  /\ LET option == Head(buffer)
         number == RowOf(option.long).check = "Numeric" IN
     /\ option.long # "clear"
     /\ IF number /\ IntOf(option.arg) = Throws
        THEN pc' = "aborted" /\ UNCHANGED << buffer, settings >>
        ELSE IF number /\ IntOf(option.arg) < RowOf(option.long).least
        THEN pc' = "refused" /\ UNCHANGED << buffer, settings >>
        ELSE /\ settings' = [settings EXCEPT
                               ![option.long] = Kept(option.long, option.arg)]
             /\ buffer' = Tail(buffer)
             /\ UNCHANGED pc
  /\ UNCHANGED << uses, args, group >>

(* The path is required; without it main returns 1.                        *)
EndSettings ==
  /\ pc = "options" /\ buffer = << >>
  /\ pc' = IF settings["flp"] = << >> THEN "refused" ELSE "init"
  /\ UNCHANGED << uses, args, group, buffer, settings >>

Next ==
  \/ LongOption \/ ShortOption \/ EndOptions \/ Clear \/ Set \/ EndSettings

Spec == Init /\ [][Next]_vars

Ended == pc \notin {"parse", "options"}

-----------------------------------------------------------------------------
(* What the usage text promises, without a parser.                         *)

IllFormed(use) ==
  RowOf(use.long).check # "None" /\ ~Accepts(RowOf(use.long).check, use.arg)

(* A number main does not go on with.                                      *)
TooSmall(use) ==
  /\ RowOf(use.long).check = "Numeric"
  /\ IntOf(use.arg) < RowOf(use.long).least

Decisive == {k \in DOMAIN uses : uses[k].long = "clear" \/ TooSmall(uses[k])}

EndAt(use) ==
  IF use.long = "clear" THEN "cleared"
  ELSE IF IntOf(use.arg) = Throws THEN "aborted" ELSE "refused"

UsesOf(long) == {k \in DOMAIN uses : uses[k].long = long}

HeightLetters == {k \in DOMAIN uses : HeightLetter(uses[k])}

(* Where the letter h is --help's, its argument stands alone: no option if *)
(* it is a positive number, and one that does not exist if there is a      *)
(* minus before it or if it hangs on the letter.                           *)
PrintsHelp(use) == use.form = "-s arg" /\ Len(use.arg) = 1

(* The end of main, if the uses in help ask for help and not for a height. *)
EndGiven(help) ==
  IF \E k \in DOMAIN uses : IllFormed(uses[k]) /\ \A j \in help : k < j
  THEN "failed"
  ELSE IF help # {}
  THEN IF PrintsHelp(uses[Min(help)]) THEN "usage" ELSE "failed"
  ELSE IF uses = << >> \/ UsesOf("help") # {} THEN "usage"
  ELSE IF Decisive # {} THEN EndAt(uses[Min(Decisive)])
  ELSE IF UsesOf("flp") = {} THEN "refused" ELSE "init"

PromisedSettings ==
  [long \in DOMAIN Default |->
     IF UsesOf(long) = {} THEN Default[long]
     ELSE Kept(long, uses[Max(UsesOf(long))].arg)]

(* How main ends, for every command line made of the uses described, in    *)
(* any order and any number.  An argument is never read as an option nor   *)
(* the reverse, a wrong one anywhere stops main before it clears anything, *)
(* help comes before clear, the last use of an option counts, what is      *)
(* refused or cleared never reaches init.  The text is not followed in two *)
(* ways.  A number std::stoi reads no integer from, .5 say, passes the     *)
(* parser and aborts main where it comes to use it.  And the letter h is   *)
(* always --help's, so that after it nothing is read but what follows in   *)
(* its argument, or an argument that begins with a minus.                  *)
UsageObeyed ==
  Ended =>
    /\ pc = EndGiven(HeightLetters)
    /\ pc = "init" => settings = PromisedSettings

(* What the usage text says of a command line that is in order: the server *)
(* starts, with these settings.  (False: a height given as -h <arg> prints *)
(* the help.)                                                              *)
DescribedLineRuns ==
  Ended /\ EndGiven({}) = "init" => pc = "init" /\ settings = PromisedSettings

=============================================================================
