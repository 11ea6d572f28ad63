--------------------------- MODULE MCInstructionTree ---------------------------
(* Small trees for TLC: a configuration picks the roots and lists their       *)
(* instructions.  Trees share instructions, as only one of them is run; but   *)
(* each reactive compound has children of its own, for Parent.                *)
EXTENDS InstructionTree

Trees ==
  [ sequence  |-> <<"Sequence", <<"fallback", "force">>>>,
    fallback  |-> <<"Fallback", <<"include", "b">>>>,
    include   |-> <<"Include", <<"a">>>>,
    force     |-> <<"ForceSuccess", <<"c">>>>,
    choice    |-> <<"Choice", <<"inverter", "b">>>>,
    inverter  |-> <<"Inverter", <<"a">>>>,
    parallel  |-> <<"ParallelSequence", <<"a", "b", "c">>>>,
    pair      |-> <<"ParallelSequence", <<"a", "b">>>>,
    steps     |-> <<"Sequence", <<"follow", "b">>>>,
    follow    |-> <<"Async", <<"a">>>>,
    async     |-> <<"Async", <<"a">>>>,
    reactseq  |-> <<"ReactiveSequence", <<"guard", "async", "last">>>>,
    reactfall |-> <<"ReactiveFallback", <<"goal", "seek", "other">>>>,
    seek      |-> <<"Async", <<"a">>>>,
    twice     |-> <<"Repeat", <<"fallback">>>>,
    forever   |-> <<"Repeat", <<"a">>>>,
    never     |-> <<"Repeat", <<"a">>>>,
    for       |-> <<"For", <<"solo">>>>,
    solo      |-> <<"ParallelSequence", <<"a">>>>,
    listen    |-> <<"Listen", <<"a">>>>,
    patient   |-> <<"Listen", <<"a">>>>,
    user      |-> <<"UserChoice", <<"a", "b">>>>,
    a |-> <<"leaf", << >>>>, b |-> <<"leaf", << >>>>, c |-> <<"leaf", << >>>>,
    guard |-> <<"leaf", << >>>>, last |-> <<"leaf", << >>>>,
    goal |-> <<"leaf", << >>>>, other |-> <<"leaf", << >>>> ]

MCKind       == [i \in Instructions |-> Trees[i][1]]
MCChildren   == [i \in Instructions |-> Trees[i][2]]
MCMaxCount   == [i \in Instructions |-> CASE i = "never" -> 0 [] i = "forever" -> -1 [] OTHER -> 2]
MCSuccessTh  == [i \in Instructions |-> IF i = "parallel" THEN 2 ELSE -1]
MCFailureTh  == [i \in Instructions |-> IF i = "parallel" THEN 3 ELSE -1]
MCSelectors == [i \in Instructions |-> {<< >>, <<0>>, <<1, 0>>, <<0, 0>>, <<0, 2>>, <<-1>>}]
=============================================================================
