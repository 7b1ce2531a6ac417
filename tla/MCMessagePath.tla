---------------------------- MODULE MCMessagePath ----------------------------
(* Frames of 24 soft bits, of which 16 are kept; frames of two bytes that    *)
(* get a marker of one.                                                     *)
EXTENDS MessagePath

Connections ==
  [soft_sink |-> {"derandomise"}, derandomise |-> {"trunk"}, trunk |-> {"harden", "packer"},
   harden |-> {}, packer |-> {},
   blob_sink |-> {"reverse"}, reverse |-> {"randomise"}, randomise |-> {"add_asm"},
   add_asm |-> {"source"}, source |-> {}]

SoftPath  == {"soft_sink", "derandomise", "trunk", "harden", "packer"}
BytePath  == {"blob_sink", "reverse", "randomise", "add_asm", "source"}
BothPaths == {SoftPath, BytePath}
SoftBlocks == SoftPath \ {"soft_sink"}

Bit(n)        == IF (n * n + n \div 5) % 7 < 3 THEN 1 ELSE 0
InputItem(b, n) == IF b = "soft_sink" THEN 2 * Bit(n) - 1 ELSE Bit(n)
SinkLen  == [soft_sink |-> 24, blob_sink |-> 16]
SinkType == [soft_sink |-> "soft", blob_sink |-> "blob"]
Poly   == <<1, 0, 0, 1, 0, 1, 0, 1>>
Seed   == <<1, 0, 1, 1, 1, 1, 1, 0>>
Second == <<1>>
Asm    == <<0, 0, 0, 1, 1, 0, 1, 0>>

\* Twelve soft bits, which packer pads, and EOF; a blob that fits the source
\* and one that is too short for it
PostedMessages ==
  [packer |-> {Message("soft", "own", [i \in 1 .. 12 |-> IF i < 4 THEN 1 ELSE -1]), EOF},
   source |-> {Message("blob", "own", [i \in 1 .. 24 |-> i % 2]),
               Message("blob", "short", [i \in 1 .. 16 |-> 0])}]

\* The sizes are not those of a frame: two frames and a part of one
Feeds     == [soft_sink |-> {12, 36}, blob_sink |-> {24, 8}]
InputLen  == [soft_sink |-> 50, blob_sink |-> 32]
PostLimit == [packer |-> 1, source |-> 2]

\* FramesArrive is proved for connections and lengths like these
ASSUME ProvedInstance == StandardPath /\ BlocksFit
=============================================================================
