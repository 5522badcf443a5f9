--------------------------- MODULE MCDrinkCommands --------------------------
EXTENDS DrinkCommands

Coffee == 2
Saved == 230

Earlier == <<1, 1, 1, 1>>
TheNow == <<9, 9, 9, 9>>
OfMachine == <<14, 0, 2, 3>>  \* a negative id

Blob(family, shape, payload, padded) ==
  [family |-> family, shape |-> shape, payload |-> payload, padded |-> padded]

TheContents ==
  <<{Blob("descriptor", "whole", <<Saved, 2, 1, 1, 3>>, FALSE),
     Blob("descriptor", "cut", <<Saved, 2, 1>>, FALSE),
     Blob("descriptor", "corrupt", <<Saved, 2, 1, 1, 3>>, FALSE)},
    {None,
     Blob("recipe", "whole", <<1, Saved, 2, 1>>, FALSE),
     Blob("recipe", "whole", <<1, Saved, 2, 3>>, FALSE),
     Blob("profiles", "whole", <<1, 2, 7, Blank>>, FALSE)}>>

Broken(frame) == [frame EXCEPT ![Len(frame)] = 255 - @]

TheFrames ==
  {AppFrame(Coffee, 3, <<2, 6>>, Earlier \o OfMachine),
   AppFrame(Saved, 3, <<2, 6>>, Earlier),
   AppFrame(Saved, Stop, <<>>, Earlier \o OfMachine),
   Broken(AppFrame(Saved, 3, <<2, 5>>, <<>>)),
   BeverageFrame(Coffee, Start, Earlier),
   PowerFrame(Wake, Earlier, OfMachine)}
=============================================================================
