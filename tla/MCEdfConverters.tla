-------------------------- MODULE MCEdfConverters ---------------------------
(* Researches to convert, for TLC.                                         *)
EXTENDS EdfConverters

\* A research whose variables are all v, but for those in other.
Research(f, v, other, chart) ==
    [vars |-> [n \in ToSet(NamesOf(f)) \ {"Discrete"} |->
                  IF n \in DOMAIN other THEN other[n]
                  ELSE IF n = "FileTypeId" THEN FileType[f]
                  ELSE IF n \in ChartInfos THEN 0
                  ELSE v],
     chart |-> chart]

Records == << <<1, 2, 3, 4>>, <<5, 6, 7, 8>> >>

MCSources ==
    [dat |-> { Research("dat", 7, [Position |-> 6], Records),
               Research("dat", 7, [Position |-> 2], <<>>),
               Research("dat", 3, [Position |-> 5, FileTypeId |-> 6], Records) },
     dyn |-> { Research("dyn", 7, [Position |-> 6, TravelStep |-> 1, LoadStep |-> 3, TimeStep |-> 5],
                        << <<63, 70>>, <<2, 63>> >>),
               Research("dyn", 600, [Position |-> 3, TravelStep |-> 50, LoadStep |-> 2],
                        << <<0, 1023>>, <<31, 0>> >>),
               Research("dyn", 5, [Position |-> 0], << <<1, 1>>, <<1, 1>> >>),
               Research("dyn", 5, [Position |-> 5, LoadStep |-> 0], << <<1, 1>>, <<1, 1>> >>),
               Research("dyn", 9, [Position |-> 5, TravelStep |-> 0], << <<1, 1>>, <<33, 64>> >>),
               Research("dyn", 65000, [Position |-> 5, TravelStep |-> 4999, LoadStep |-> 3, TimeStep |-> 2],
                        << <<63, 1>> >>) },
     echo |-> { Research("echo", 37, [Position |-> 6, Level |-> 16384 + 300], <<127, 128>>),
                Research("echo", 9, [Position |-> 1, Level |-> 300, Reflections |-> 153], <<0, 255>>) }]
=============================================================================
