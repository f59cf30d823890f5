----------------------------- MODULE MCSimMain -----------------------------
(***************************************************************************)
(* The instance of SimMain that TLC checks: command lines of up to two     *)
(* options of every kind, some longer ones, and files of every shape the   *)
(* loader tells apart.                                                     *)
(***************************************************************************)
EXTENDS SimMain

Seg(load, paddr, filesz) == [load |-> load, paddr |-> paddr, filesz |-> filesz]
Elf(segments) == [kind |-> "elf32", segments |-> segments]

MCAreas  == <<[name |-> "ram", location |-> "u_ram"]>>
MCScopes == {"u_ram"}

\* A gap and a last word that is not full; segments that overlap, in either
\* order of addresses; images the memory has no room for; none at all; a file
\* whose name also asks for the list of memories.
MCFiles ==
    "a.elf"     :> Elf(<<Seg(TRUE, 12, 3), Seg(FALSE, 0, 3), Seg(TRUE, 4, 6)>>)
 @@ "b"         :> Elf(<<Seg(TRUE, 1, 8), Seg(TRUE, 4, 2), Seg(TRUE, 0, 0)>>)
 @@ "big.elf"   :> Elf(<<Seg(TRUE, 0, 17)>>)
 @@ "empty.elf" :> Elf(<<Seg(FALSE, 0, 4)>>)
 @@ "rv64.elf"  :> [kind |-> "elf64", segments |-> <<Seg(TRUE, 0, 4)>>]
 @@ "text.elf"  :> [kind |-> "text", segments |-> <<>>]
 @@ "c.vmem"    :> [kind |-> "text", segments |-> <<Seg(TRUE, 4, 4), Seg(TRUE, 14, 4)>>]
 @@ "d.bin"     :> Elf(<<Seg(TRUE, 4, 4)>>)
 @@ "list"      :> Elf(<<Seg(TRUE, 2, 3)>>)

MCExtensions ==
    "a.elf" :> "elf" @@ "big.elf" :> "elf" @@ "empty.elf" :> "elf" @@
    "rv64.elf" :> "elf" @@ "text.elf" :> "elf" @@ "c.vmem" :> "vmem" @@
    "d.bin" :> "bin" @@ "none.elf" :> "elf"

MCFields ==
    "ram,a.elf" :> <<"ram", "a.elf">> @@ "ram,d.bin,elf" :> <<"ram", "d.bin", "elf">>
 @@ "ram,d.bin" :> <<"ram", "d.bin">> @@ "ram,,elf" :> <<"ram", "", "elf">>
 @@ "ram,c.vmem,vmem,x" :> <<"ram", "c.vmem", "vmem", "x">>
 @@ "rom,a.elf," :> <<"rom", "a.elf", "">>

MCNumbers == "3" :> 3 @@ "5" :> 5 @@ "-1" :> -1

Tokens ==
    {Attached("m", p) : p \in DOMAIN MCFiles \cup {"none.elf"}}
    \cup {Attached("r", "b"), Attached("f", "a.elf")}
    \cup {Attached("l", a) : a \in DOMAIN MCFields \cup {"list", "ram"}}
    \cup {Attached("c", n) : n \in {"3", "-1"}}
    \cup {Alone("h", "-h"), Alone("t", "-t"), Alone("m", "-m"), Alone("c", "-c"),
          Alone("x", "-x"), Word("a.elf"), Word("5")}

\* Separate arguments, which the first parser takes apart (-m a.elf -c 5).
Separate ==
    {<<Alone("m", "-m"), Word("a.elf"), Alone("c", "-c"), Word("5")>>,
     <<Alone("c", "-c"), Word("5"), Alone("m", "-m"), Word("a.elf")>>,
     <<Word("5"), Alone("c", "-c"), Alone("h", "-h")>>}

MCCommandLines == {<<>>} \cup {<<t>> : t \in Tokens}
                  \cup {<<s, t>> : s \in Tokens, t \in Tokens}
                  \cup Separate
                  \cup {<<Attached("m", "b"), Attached("m", "c.vmem"), t>> : t \in Tokens}
=============================================================================
