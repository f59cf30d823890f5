------------------------------- MODULE Getopt -------------------------------
(***************************************************************************)
(* getopt_long of the C library as both parsers of a command line use it   *)
(* (external).                                                             *)
(*                                                                         *)
(* A token of the command line is an option, alone (-m) or with its        *)
(* argument attached (--raminit=a.elf), or a word.  The scan steps over    *)
(* words and moves what it consumed in front of them.  An option that      *)
(* wants an argument and has none attached takes the next token, whatever  *)
(* that is; an option the caller does not know takes nothing.  So a parser *)
(* that does not know -m moves its argument away from it.                  *)
(***************************************************************************)
EXTENDS Naturals, Sequences, SequencesExt

NoArg == "NoArg"

\* Tokens; text is what a token is when another option takes it as argument.
Word(text)          == [opt |-> "word", arg |-> text, text |-> text]
Alone(opt, text)    == [opt |-> opt, arg |-> NoArg, text |-> text]
Attached(opt, text) == [opt |-> opt, arg |-> text, text |-> text]

\* A scan of argv: what is left, and what was consumed and skipped so far.
ScanOf(argv) == [todo |-> argv, opts |-> <<>>, words |-> <<>>]

IsOption(t) == t.opt # "word"

\* The argument vector a finished scan leaves behind.
Permuted(scan) == scan.opts \o scan.words \o scan.todo
Finished(scan) == \A k \in DOMAIN scan.todo : ~IsOption(scan.todo[k])

\* One call of getopt_long by a parser that knows the options `known', of
\* which `takers' want an argument: the option it returns, its argument and
\* the scan after it.
NextOption(scan, known, takers) ==
    LET k     == SelectInSeq(scan.todo, IsOption)
        t     == scan.todo[k]
        rest  == SubSeq(scan.todo, k + 1, Len(scan.todo))
        takes == t.opt \in takers /\ t.arg = NoArg
        after(used, left) ==
            [todo  |-> left, opts |-> scan.opts \o used,
             words |-> scan.words \o SubSeq(scan.todo, 1, k - 1)]
    IN  IF takes /\ rest # <<>>
        THEN [opt |-> t.opt, arg |-> Head(rest).text,
              scan |-> after(<<t, Head(rest)>>, Tail(rest))]
        ELSE [opt |-> CASE t.opt \notin known -> "?"
                        [] takes -> ":"
                        [] OTHER -> t.opt,
              arg |-> t.arg, scan |-> after(<<t>>, rest)]
=============================================================================
