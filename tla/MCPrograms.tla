----------------------------- MODULE MCPrograms -----------------------------
(***************************************************************************)
(* Parts of the system that do not share state, on one instance: each      *)
(* behaviour is about the part that the variable part names.               *)
(***************************************************************************)
EXTENDS Vfs, AddressSpace, Dynlink

VARIABLE part

programsVars ==
    <<part, vars, as, dl>>

\* Pages 1 to 6 share a table, and so do the two of the arena.
AsOneStack == <<2>>
AsOneThread == {<<6>>}
AsTwoTables == [p \in 1 .. 8 |-> IF p < 7 THEN <<"top", "low">> ELSE <<"top", "arena">>]
Seg(pages, w, x) == [pages |-> pages, w |-> w, x |-> x, valid |-> TRUE]
Prog(segs) == [header |-> TRUE, segs |-> segs]
AsPrograms == {Prog(<<Seg(<<3>>, FALSE, TRUE), Seg(<<4>>, TRUE, FALSE)>>), Prog(<<Seg(<<3>>, TRUE, TRUE)>>),
               Prog(<<Seg(<<3>>, FALSE, TRUE), Seg(<<3, 4>>, TRUE, FALSE)>>),
               Prog(<<[Seg(<<3>>, TRUE, FALSE) EXCEPT !.valid = FALSE]>>),
               [header |-> FALSE, segs |-> <<>>]}
Text == [pages |-> {0}, w |-> FALSE, x |-> TRUE, file |-> TRUE]
Data == [pages |-> {1}, w |-> TRUE, x |-> FALSE, file |-> FALSE]
TlsBlock(size, align) == [size |-> size, align |-> align]
\* An object that exports its own name and uses one symbol; b and c have thread-local data.
Plain(name, needed, use, tls) ==
    [soname |-> "", needed |-> needed, exports |-> {name}, refs |-> {[sym |-> use, tls |-> FALSE]}, writes |-> 1,
     segs |-> <<Text, Data>>, tls |-> tls, tls_syms |-> {name}, parses |-> TRUE]
Graphs == {[a |-> Plain("a", na, ua, TlsBlock(0, 1)), b |-> Plain("b", nb, "b", TlsBlock(1, 1)),
            c |-> Plain("c", nc, "c", TlsBlock(2, 2))] :
             na \in {<<>>, <<"b">>, <<"b", "c">>, <<"c", "b">>}, nb \in {<<>>, <<"c">>, <<"a">>},
             nc \in {<<>>, <<"b">>, <<"c">>}, ua \in {"a", "c"}}
\* One file that is out of the ordinary.
Variants(w) ==
    {w, [w EXCEPT !.b.soname = "c"], [w EXCEPT !.c.soname = "a"], [w EXCEPT !.c.segs[2].x = TRUE],
     [w EXCEPT !.b.segs[2].pages = {0, 1}], [w EXCEPT !.b.segs[2].pages = {1, 2}], [w EXCEPT !.c.writes = 0],
     [w EXCEPT !.b.parses = FALSE], [w EXCEPT !.a.tls = TlsBlock(3, 1)], [w EXCEPT !.b.exports = {"b", "c"}],
     [w EXCEPT !.a.refs = {[sym |-> "b", tls |-> TRUE]}], [w EXCEPT !.a.segs[1].file = FALSE],
     [w EXCEPT !.c.needed = <<"d">>]}
DlLibraries == UNION {Variants(w) : w \in Graphs}

\* A part that the behaviour is about starts in a state of S, another has none.
Starts(p, v, S) == IF part = p THEN v \in S ELSE v = <<>>

ProgramsInit ==
    /\ part \in {"pipes", "spaces", "dynlink"}
    /\ Init
    /\ IF part = "spaces" THEN AsInit ELSE as = <<>>
    /\ Starts("dynlink", dl, DlStarts)

\* All parts but p stay as they are.
Only(p) ==
    /\ part = p /\ UNCHANGED part
    /\ IF p = "pipes" THEN TRUE ELSE UNCHANGED vars
    /\ IF p = "spaces" THEN TRUE ELSE UNCHANGED as
    /\ IF p = "dynlink" THEN TRUE ELSE UNCHANGED dl

ProgramsNext ==
    \/ Only("pipes") /\ Next
    \/ Only("spaces") /\ AsNext
    \/ Only("dynlink") /\ DlNext

ProgramsSpec == ProgramsInit /\ [][ProgramsNext]_programsVars

\* What is said of a part is checked in the behaviours of that part.
Of(p, says) == part = p => says

\* What programs rely on holds. A frame has one owner, a page lies in a frame of
\* its space, and a load, an exec or a mapping that fails loses no frame (vmm.rs,
\* memory.rs, elf.rs). A library is initialised after those that it needs, with all
\* references bound, apart from the others and never writable and executable at
\* once (dynlink.rs). The tables of both have their types.
ProgramsSound ==
    /\ Of("spaces", AsTypeOK /\ FramesOnce /\ PagesOwned /\ NothingLost /\ SpacesWhole)
    /\ Of("dynlink", DlTypeOK /\ InitsInOrder /\ RefsBound /\ ObjectsApart /\ NeverWX /\ GoodProgramsLoad)

=============================================================================
