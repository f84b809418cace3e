------------------------------ MODULE Options ------------------------------
(***************************************************************************)
(* The command line (src/options.c) as far as later steps depend on it,    *)
(* and what main (src/driftnet.c) and src/media/media.c derive from it:    *)
(* which drivers look for media, and to whom they hand what they find.     *)
(* This is the build with both displays.  An argument is the letter of an  *)
(* option; options that only set a value nobody here looks at are left out.*)
(***************************************************************************)
EXTENDS Integers, Sequences

CONSTANT LIMIT  \* the argument of -m

ASSUME OptionsAssumption == LIMIT \in Nat \ {0}

Default == [ok |-> TRUE, adjunct |-> FALSE, dir |-> FALSE, max |-> 0,
            type |-> {"image"}, only |-> "any", gtk |-> FALSE, http |-> FALSE,
            dump |-> FALSE, interface |-> FALSE, drop |-> FALSE, list |-> FALSE]

\* One turn of the getopt loop; after an error the others are not looked at.
Option(o, c) ==
    IF ~o.ok THEN o ELSE
    CASE c = "a" -> [o EXCEPT !.adjunct = TRUE]
      [] c = "d" -> [o EXCEPT !.dir = TRUE]
      [] c = "m" -> [o EXCEPT !.max = LIMIT]
      [] c = "s" -> [o EXCEPT !.type = @ \cup {"audio"}]
      [] c = "t" -> [o EXCEPT !.type = @ \cup {"text"}]
      [] c = "S" -> IF o.only = "text" THEN [o EXCEPT !.ok = FALSE]
                    ELSE [o EXCEPT !.only = "audio", !.type = {"audio"}]
      [] c = "T" -> IF o.only = "audio" THEN [o EXCEPT !.ok = FALSE]
                    ELSE [o EXCEPT !.only = "text", !.type = {"text"}]
      [] c = "f" -> IF o.interface THEN [o EXCEPT !.ok = FALSE] ELSE [o EXCEPT !.dump = TRUE]
      [] c = "i" -> IF o.dump THEN [o EXCEPT !.ok = FALSE] ELSE [o EXCEPT !.interface = TRUE]
      [] c = "g" -> [o EXCEPT !.gtk = TRUE]
      [] c = "w" -> [o EXCEPT !.http = TRUE]
      [] c = "Z" -> [o EXCEPT !.drop = TRUE]
      [] c = "l" -> [o EXCEPT !.list = TRUE]
      [] OTHER -> [o EXCEPT !.ok = FALSE]

\* Mutant of Validate: no display is chosen when none was asked for.
Validate_NoDefault(o) ==
    IF ~o.ok \/ o.list THEN o
    ELSE IF o.adjunct THEN [o EXCEPT !.interface = ~o.dump]
    ELSE [o EXCEPT !.interface = ~o.dump, !.max = 0, !.ok = ~(o.gtk /\ o.http)]

\* validate_options
Validate(o) ==
    IF ~o.ok \/ o.list THEN o
    ELSE IF o.adjunct THEN [o EXCEPT !.interface = ~o.dump]
    ELSE [o EXCEPT !.interface = ~o.dump, !.max = 0, !.ok = ~(o.gtk /\ o.http),
                   !.gtk = @ \/ ~o.http]

\* The options after each number of turns of the getopt loop.
Getopt(args) ==
    LET after[n \in 0 .. Len(args)] ==
            IF n = 0 THEN Default ELSE Option(after[n - 1], args[n])
    IN  after

\* parse_options
Parse(args) == Validate(Getopt(args)[Len(args)])

\* media_drivers, and get_drivers_for_mediatype
DriverType == [gif |-> "image", jpeg |-> "image", png |-> "image", webp |-> "image",
               mpeg |-> "audio", HTTP |-> "text"]

DriversFor(type) == {d \in DOMAIN DriverType : DriverType[d] \in type}

\* main's choice of driver->dispatch_data.
Dispatch(o, d) ==
    CASE DriverType[d] = "audio" -> "player"
      [] DriverType[d] = "image" -> IF o.adjunct THEN "stdout"
                                    ELSE IF o.gtk THEN "gtk" ELSE "http"
      [] DriverType[d] = "text" -> IF o.adjunct \/ o.gtk THEN "stdout" ELSE "http"
=============================================================================
