------------------------------- MODULE MCKeys -------------------------------
(* Small instances of Keys for TLC. *)
EXTENDS Keys

\* heights with different layouts, and with fewer visible rows than MaxRows
MCHeights == {10, 13}

MCChars == {"a", "A", "r", "R", "h", "H", "e", "E", "s", "S", "ctl", "nl"}
MCTyped == {"a", "r", "h", "e"}
MCTypedStart == {"a", "s"}
MCUpper == [c \in MCChars |->
              CASE c = "a" -> "A" [] c = "r" -> "R" [] c = "h" -> "H"
                [] c = "e" -> "E" [] c = "s" -> "S" [] OTHER -> c]

\* KEY_F(2) is 266: its low byte is a newline
MCLowByte == [k \in {"up", "down", "resize", "f1", "f2"} |->
                IF k = "f2" THEN "nl" ELSE "ctl"]

\* START is two characters longer than RUN
MCStart == <<"S", "A", "S">>
MCStartShort == <<"S">>
MCRun == <<"R">>
MCHelp == <<"H">>
MCExit == <<"E">>
=============================================================================
