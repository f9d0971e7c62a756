---------------------------- MODULE LetterTables ----------------------------
(***************************************************************************)
(* The tables of letters of sutils/StringUtils.cpp.                        *)
(***************************************************************************)
EXTENDS Integers, SequencesExt

\* A table is given in stretches of evenly spaced code points: the first, how
\* many, and how far apart.
Spread(stretches) ==
    FlattenSeq([s \in 1..Len(stretches) |->
        [i \in 1..stretches[s][2] |-> stretches[s][1] + (i - 1) * stretches[s][3]]])

lowers == Spread(<<
    <<97, 26, 1>>, <<224, 23, 1>>, <<248, 8, 1>>, <<257, 28, 2>>,
    <<314, 8, 2>>, <<331, 23, 2>>, <<378, 3, 2>>, <<387, 2, 2>>, <<392, 2, 4>>,
    <<402, 2, 7>>, <<417, 3, 2>>, <<424, 2, 5>>, <<432, 2, 4>>, <<438, 2, 3>>,
    <<445, 2, 9>>, <<457, 2, 3>>, <<462, 8, 2>>, <<479, 9, 2>>, <<499, 2, 2>>,
    <<507, 15, 2>>, <<595, 2, 1>>, <<599, 3, 1>>, <<603, 2, 5>>, <<611, 2, 5>>,
    <<617, 2, 6>>, <<626, 2, 3>>, <<643, 2, 5>>, <<650, 2, 1>>, <<658, 1, 1>>,
    <<940, 4, 1>>, <<945, 17, 1>>, <<963, 12, 1>>, <<995, 7, 2>>,
    <<1072, 32, 1>>, <<1105, 12, 1>>, <<1118, 2, 1>>, <<1121, 17, 2>>,
    <<1169, 24, 2>>, <<1218, 2, 2>>, <<1224, 2, 4>>, <<1233, 14, 2>>,
    <<1263, 4, 2>>, <<1273, 1, 1>>, <<1377, 38, 1>>, <<4304, 38, 1>>,
    <<7681, 75, 2>>, <<7841, 45, 2>>, <<7936, 8, 1>>, <<7952, 6, 1>>,
    <<7968, 8, 1>>, <<7984, 8, 1>>, <<8000, 6, 1>>, <<8017, 4, 2>>,
    <<8032, 8, 1>>, <<8064, 8, 1>>, <<8080, 8, 1>>, <<8096, 8, 1>>,
    <<8112, 2, 1>>, <<8144, 2, 1>>, <<8160, 2, 1>>, <<9424, 26, 1>>,
    <<65345, 26, 1>> >>)

uppers == Spread(<<
    <<65, 26, 1>>, <<192, 23, 1>>, <<216, 7, 1>>, <<376, 1, 1>>,
    <<256, 24, 2>>, <<73, 1, 1>>, <<306, 3, 2>>, <<313, 8, 2>>, <<330, 23, 2>>,
    <<377, 3, 2>>, <<386, 2, 2>>, <<391, 2, 4>>, <<401, 2, 7>>, <<416, 3, 2>>,
    <<423, 2, 5>>, <<431, 2, 4>>, <<437, 2, 3>>, <<444, 2, 8>>, <<455, 3, 3>>,
    <<463, 7, 2>>, <<478, 9, 2>>, <<497, 2, 3>>, <<506, 15, 2>>, <<385, 2, 5>>,
    <<394, 2, 4>>, <<399, 2, 1>>, <<403, 2, 1>>, <<407, 1, 1>>, <<406, 2, 6>>,
    <<413, 2, 2>>, <<425, 2, 5>>, <<433, 2, 1>>, <<439, 1, 1>>, <<902, 2, 2>>,
    <<905, 2, 1>>, <<913, 17, 1>>, <<931, 9, 1>>, <<908, 2, 2>>, <<911, 1, 1>>,
    <<994, 7, 2>>, <<1040, 32, 1>>, <<1025, 12, 1>>, <<1038, 2, 1>>,
    <<1120, 17, 2>>, <<1168, 24, 2>>, <<1217, 2, 2>>, <<1223, 2, 4>>,
    <<1232, 14, 2>>, <<1262, 4, 2>>, <<1272, 1, 1>>, <<1329, 38, 1>>,
    <<4256, 38, 1>>, <<7680, 75, 2>>, <<7840, 45, 2>>, <<7944, 8, 1>>,
    <<7960, 6, 1>>, <<7976, 8, 1>>, <<7992, 8, 1>>, <<8008, 6, 1>>,
    <<8025, 4, 2>>, <<8040, 8, 1>>, <<8072, 8, 1>>, <<8088, 8, 1>>,
    <<8104, 8, 1>>, <<8120, 2, 1>>, <<8152, 2, 1>>, <<8168, 2, 1>>,
    <<9398, 26, 1>>, <<65313, 26, 1>> >>)
=============================================================================
