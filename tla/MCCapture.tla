------------------------------ MODULE MCCapture ------------------------------
(* Model-checking instance of Capture: every command and every kind of upload, *)
(* with the sizes of the code, on links of 20, 182 and 514 bytes.             *)
EXTENDS Capture

MCFlat == FlatCommands \cup GraffitiFeature({1, 256, 511})
MCChunked == Uploads
MCAnimations ==
  [count : {1, 2, 3, 40, 60, 64, 65, 125, 188}, info : {{}, {0}, {10}, {33}, {50}, {1000}}, override : {{}}]
  \cup [count : {1, 3, 60, 125}, info : {{}, {50}}, override : {{-5}, {0}, {5}, {50}, {2500}}]
MCBystanders == {Command("brightness", 4, 128, 5)}
=============================================================================
