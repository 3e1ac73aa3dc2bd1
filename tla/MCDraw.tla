------------------------------- MODULE MCDraw -------------------------------
(***************************************************************************)
(* Small instances of Draw: four drawables on two pixels.                  *)
(***************************************************************************)
EXTENDS Draw

\* The first two drawables cover a pixel each, the others both.
Covers == <<{1}, {2}, {1, 2}, {1, 2}>>
Blendings == {<<"multiply", "normal", "normal", "multiply">>,
              <<"normal", "multiply", "add", "normal">>}

ModelsWith(masks) ==
    [masks : masks, blending : Blendings, covers : {Covers}]

None == <<>>

\* No masks; a mask for each of two drawables; two masks of one
FlatModels ==
    ModelsWith({<<None, None, None, None>>,
                <<None, None, <<1>>, <<2>>>>,
                <<None, None, <<1, 2>>, None>>})

\* A mask that has a mask
NestedModels == ModelsWith({<<None, <<1>>, <<1, 2>>, None>>})

ModelsConsidered == FlatModels \cup NestedModels

OrdersConsidered == {<<4, 3, 2, 1>>, <<2, 4, 1, 3>>}

\* None, and one that lets through what the game has marked with 1
TestsConsidered == {NoTest, [mode |-> "equal", value |-> 1]}

=============================================================================
