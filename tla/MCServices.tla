----------------------------- MODULE MCServices -----------------------------
(* Instances of the service modules for TLC. *)
EXTENDS Services

Classes == <<2, 4>>

Is(x) == [op |-> "==", var |-> "x", val |-> x]
Test(op, x) == [op |-> op, var |-> "x", val |-> x]
L(k) == [kind |-> k]
C(k, c) == [kind |-> k, cond |-> c]
S(k, v, x) == [kind |-> k, var |-> v, val |-> x]
Alphabet ==
    {C("if", Test("-e", "p")), C("if", Test("-f", "p")), C("elif", Is("1")), L("else"),
     L("endif"), C("while", Test("!=", "1")), L("endwhile"), S("set", "x", "1"),
     S("capture", "x", "0"), L("echo"), L("exit"), L("program")}
Nested ==
    <<S("set", "x", "1"), C("if", Is("1")), C("while", Test("word", "")), L("echo"),
      S("set", "x", "0"), L("endwhile"), L("else"), L("command"), L("endif"), L("echo")>>
Deep ==
    <<L("echo"), C("if", Is("")), C("if", Is("1")), L("echo"), C("elif", Test("-e", "p")),
      S("capture", "y", "1"), L("else"), L("echo"), L("endif"), L("program"), L("endif"), L("program"),
      C("while", [op |-> "!=", var |-> "y", val |-> "1"]), S("set", "y", "1"), L("endwhile"),
      S("capture_program", "y", "1"), L("echo")>>
ScriptSet == UNION {[1..n -> Alphabet] : n \in 0..3} \cup {Nested, Deep}
FsSet == {[p \in {} |-> ""], [p \in {"p"} |-> "dir"]}

Alias(k, t) == [key |-> k, tmpl |-> t]
LineSet ==
    {<<>>, <<"ls", "x">>, <<"ls", "files">>, <<"git", "log", "x">>, <<"me">>, <<"clear">>,
     <<"p", "|", "p">>, <<"ls", "|", "p">>, <<"/d/p">>, <<"p">>, <<"q">>, <<"a", "b", "c", "d">>}
Book0 ==
    <<Alias(<<"ls">>, <<"list", "[args]">>), Alias(<<"ls", "files">>, <<"p">>), Alias(<<"ls">>, <<"q">>),
      Alias(<<"w">>, <<"p", "|", "q">>), Alias(<<"git", "log">>, <<"q", "[arg1]", "[arg2]">>),
      Alias(<<"me">>, <<"me", "p">>), Alias(<<"q">>, <<"p">>)>>
Book1 == <<Alias(<<"me">>, <<"[args]">>), Alias(<<"ls">>, <<"q", "[arg1]">>)>>
ConfigSet == {[d \in 0..1 |-> IF d = 0 THEN Book0 ELSE Book1]}
TreeSet ==
    {[d \in 0..1 |-> IF d = 0 THEN [p \in {"p", "q.uelf"} |-> IF p = "p" THEN "script" ELSE "elf"]
                     ELSE [p \in {"q", "/d/p.uelf"} |-> "elf"]],
     [d \in 0..1 |-> [p \in {"q"} |-> "script"]]}

Ctl(i, n) == [id |-> i, native |-> n, safe |-> TRUE]
Unsafe(i) == [id |-> i, native |-> {0, 1}, safe |-> FALSE]
Buses == {<<>>, <<Ctl("a", {})>>, <<Unsafe("a"), Ctl("b", {0})>>,
          <<Ctl("a", {0, 1}), Ctl("b", {})>>,
          <<Ctl("a", {1}), Ctl("b", {0, 1})>>,
          <<Ctl("a", {}), Ctl("b", {0, 1}), Ctl("c", {0, 1})>>}
Part(t, s, n) == [type |-> t, start |-> s, count |-> n]
Tables == {<<Part("eynfs", 2, 12), Part("swap", 14, 5)>>,
           <<Part("empty", 0, 0), Part("eynfs", 2, 9)>>,
           <<Part("swap", 2, 7), Part("eynfs", 9, 10)>>}
Drive(l, l48, s, s48, c, h, t) ==
    [lba |-> l, lba48 |-> l48, sectors |-> s, sectors48 |-> s48, cyl |-> c,
     heads |-> h, spt |-> t]
Disks == {Drive(FALSE, FALSE, 0, 0, 3, 2, 3), Drive(FALSE, FALSE, 0, 0, 0, 2, 3), Drive(FALSE, FALSE, 0, 0, 3, 2, 4),
          Drive(TRUE, FALSE, 17, 0, 0, 0, 0), Drive(TRUE, TRUE, 17, 18, 3, 2, 3),
          Drive(TRUE, FALSE, 300, 0, 0, 0, 0)}
ShortNames == [n \in {"a", "b", "long_a"} |-> IF n = "b" THEN "B" ELSE "A"]

File(n, s, f) == [name |-> n, type |-> "file", size |-> s, first |-> f]
Dir(n, f) == [name |-> n, type |-> "dir", size |-> 0, first |-> f]
Super(r, t) == [BlankSector EXCEPT !.super = [magic |-> TRUE, root |-> r, total |-> t]]
DirSector(n, es) == [BlankSector EXCEPT !.next = n, !.slots = es]
Bytes(n, a, b) == [BlankSector EXCEPT !.next = n, !.data = <<a, b>>]
Mbr(t) == [BlankSector EXCEPT !.table = t]
\* A partition at 1 with a directory of two blocks and a chain that is too short,
Partitioned ==
    <<Mbr(<<Part("swap", 5, 2), Part("eynfs", 1, 8)>>), Super(1, 8), DirSector(7, <<File("f", 5, 2)>>),
      Bytes(3, 1, 2), Bytes(4, 3, 4), Bytes(0, 5, 6), DirSector(0, <<File("g", 3, 6)>>),
      Bytes(0, 7, 8), DirSector(0, <<Dir("d", 5)>>)>>
\* an image without a table, and one whose table is wrong.
Whole0 == <<Super(1, 4), DirSector(0, <<File("f", 4, 2)>>), Bytes(3, 1, 2), Bytes(0, 3, 4)>>
Wrong == <<Mbr(<<Part("eynfs", 9, 1)>>), Super(1, 2)>>
Mod(n, s) == [named |-> n, sectors |-> s]
Modules == {<<>>, <<Mod(FALSE, Partitioned)>>, <<Mod(FALSE, Wrong), Mod(TRUE, Whole0)>>, <<Mod(FALSE, Wrong)>>}
RawSectors == {BlankSector, Bytes(0, 8, 9), Super(1, 4), Mbr(<<Part("swap", 2, 3)>>)}
Machine(r, k, p, fb) == [ram |-> r, kernel |-> k, payload |-> p, fbTables |-> fb]
Span(a, b) == [start |-> a, end |-> b]
Machines ==
    {Machine(33, 7, {}, 0), Machine(59, 8, {Span(1, 2), Span(9, 13)}, 1),
     Machine(41, 5, {Span(6, 7), Span(14, 16)}, 0)}
PathSet == {<<"f">>, <<"d", "g">>, <<"d">>, <<"f", "g">>}
=============================================================================
