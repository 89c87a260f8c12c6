--------------------------- MODULE MCStaticAnalysis ---------------------------
(* Small programs: three ARM words of main, two of overlay 2 in one mode   *)
(* or the other, and one of overlay 10, which is compressed.               *)
EXTENDS StaticAnalysis

I(flags, to) == Instruction(4, flags, to, 0)
Ret == I({"return"}, Nowhere)
BranchTo(a) == I({"jump"}, a)
BranchIf(a) == I({"jump", "conditional"}, a)
CallTo(a) == I({"call"}, a)
CallOther(a) == I({"call", "switches"}, a)
Literal(displacement) == Instruction(4, {"pc"}, Nowhere, displacement)
Jump == I({"jump"}, Nowhere)
CallAny == I({"call"}, Nowhere)

Overlay(id, ram, ramSize, bss, size, compressed) ==
    [id |-> id, ram |-> ram, ramSize |-> ramSize, bss |-> bss, file |-> id, start |-> 100 + 20 * id,
     end |-> 100 + 20 * id + size, csize |-> size, compressed |-> compressed]

Executable(start, ram, size) == [start |-> start, end |-> start + size, ram |-> ram, ramEnd |-> ram + size]

\* Overlay 10 follows overlay 2 in memory, covers its second word, or the last word of main.
Rom(ram1, code) ==
    [exe |-> [arm9 |-> Executable(10, 0, 12), arm7 |-> Executable(50, 12, 8)],
     entry |-> [arm9 |-> 0, arm7 |-> 12],
     overlays |-> [arm9 |-> <<Overlay(2, 12, 8, 0, 8, FALSE), Overlay(10, ram1, 4, 4, 2, TRUE)>>, arm7 |-> <<>>],
     code |-> code]

Code(m0, m4, m8, o12, o16, c) ==
    Source(Main, 0, "arm") :> m0 @@ Source(Main, 4, "arm") :> m4 @@ Source(Main, 8, "arm") :> m8
    @@ Source(2, 12, "arm") :> o12 @@ Source(2, 16, "arm") :> o16
    @@ Source(2, 12, "thumb") :> Instruction(2, {"call", "switches"}, 8, 0)
    @@ Source(2, 14, "thumb") :> Instruction(2, {"jump", "conditional"}, 12, 0)
    @@ Source(2, 16, "thumb") :> Instruction(2, {"return"}, Nowhere, 0)
    @@ Source(10, 20, "arm") :> c @@ Source(10, 16, "arm") :> c

MCPrograms ==
    {Rom(ram1, Code(m0, m4, m8, o12, o16, c)) :
        ram1 \in {8, 16, 20},
        m0 \in {CallAny, CallTo(12), BranchIf(8), CallTo(8)},
        m4 \in {CallOther(12), BranchTo(0), BranchTo(12)},
        m8 \in {Jump, CallTo(0), Literal(-4)},
        o12 \in {Literal(-8), CallTo(20)},
        o16 \in {Ret, CallTo(12)},
        c \in {BranchTo(8)}}

Wide == [components |-> 3, blocks |-> 20, instructions |-> 20, bytes |-> 80, edges |-> 20, xrefs |-> 9,
         functions |-> 9, callSites |-> 9]
WideCfg == [blocks |-> 9, instructions |-> 20, bytes |-> 80, edges |-> 9]

Limits ==
    {<<Wide, WideCfg>>, <<[Wide EXCEPT !.xrefs = 1, !.functions = 2, !.components = 2], WideCfg>>,
     <<[Wide EXCEPT !.blocks = 3, !.callSites = 1], [WideCfg EXCEPT !.blocks = 2]>>,
     <<[Wide EXCEPT !.instructions = 5], [WideCfg EXCEPT !.instructions = 3]>>,
     <<[Wide EXCEPT !.bytes = 16], [WideCfg EXCEPT !.bytes = 8]>>,
     <<[Wide EXCEPT !.edges = 2], [WideCfg EXCEPT !.edges = 1]>>}

Whole == [main |-> TRUE, all |-> TRUE, ids |-> <<>>]
MainOnly == [main |-> TRUE, all |-> FALSE, ids |-> <<>>]
Overlays == [main |-> FALSE, all |-> FALSE, ids |-> <<10, 2>>]

Seed(a, mode, owner) == [at |-> a, mode |-> mode, owner |-> owner]
Searches ==
    {<<Whole, <<>>>>, <<MainOnly, <<>>>>,
     <<Overlays, <<Seed(12, "thumb", 2), Seed(16, "arm", 2), Seed(12, "thumb", AnyOwner)>>>>,
     <<Overlays, <<Seed(12, "arm", 2), Seed(20, "arm", 10)>>>>,
     <<Whole, <<Seed(14, "thumb", AnyOwner), Seed(8, "arm", AnyOwner)>>>>}

Target(a, mode) == [at |-> a, mode |-> mode, owner |-> AnyOwner]

Request(tool, search, target, limits) ==
    [tool |-> tool, p |-> "arm9", scope |-> search[1], seeds |-> search[2], target |-> target,
     limits |-> limits[1], cfg |-> limits[2]]

MCRequests ==
    {Request(t, s, Target(12, "arm"), l) : t \in {"xrefs", "function", "functions"}, s \in Searches, l \in Limits}
    \cup {Request("cfg", <<Whole, <<>>>>, x, l) : x \in {Target(12, "arm"), Target(12, "thumb")}, l \in Limits}

=============================================================================
