------------------------------- MODULE MCActors -------------------------------
(* Small instances of the actors; the bounds are those of the README.      *)
EXTENDS Actors, MCOled

\* Dates two seconds before a year, a month, a leap day and noon.
At(y, mo, d, h, u) ==
  [date |-> [year |-> y, month |-> mo, day |-> d, hours |-> h, minutes |-> 59,
             seconds |-> 58],
   unix |-> u]
MCStarts == {At(2023, 12, 31, 23, 1704067198), At(2024, 2, 28, 23, 1709164798),
             At(2024, 2, 29, 23, 1709251198), At(2025, 2, 28, 23, 1740787198),
             At(2026, 4, 30, 11, 1777550398)}

\* Boards that need two devices, none, or one.
MCConfigs == {[required |-> {"d1", "d2"}, optional |-> {"d3"}],
              [required |-> {}, optional |-> {"d1", "d2"}],
              [required |-> {"d1"}, optional |-> {}]}

\* What SYSTEM_READY may announce to the application.
MCMasks == {{}, {"OLED"}, {"MCP23008", "OLED"}}

\* Commands.  A text is a sequence of characters: 0 to 9 are the digits, 10 to
\* 15 the letters of a hexadecimal number, the others no number.
MCToken == <<20, 21>>
KV(k, v) == [key |-> k, value |-> v]
Cmd(topic, fields) == [topic |-> topic, payload |-> <<KV("token", MCToken)>> \o fields]
SleepArm(nonce, ms) == Cmd("sleep", <<KV("arm", nonce), KV("ms", ms)>>)
SleepConfirm(nonce) == Cmd("sleep", <<KV("confirm", nonce)>>)
MCMessages ==
  {SleepArm(<<7>>, ms) : ms \in {<<0, 5>>, <<0>>, <<3, 1>>, <<4, 3>>, <<0, 0, 5>>, <<1, 10>>}}
    \cup {SleepArm(<<7, 7>>, <<2, 9>>), SleepArm(<<7, 7, 7>>, <<9>>), SleepArm(<< >>, <<9>>)}
    \cup {SleepConfirm(nonce) : nonce \in {<<7>>, <<7, 7>>, <<8>>, << >>}}
    \cup {Cmd("sleep", fields) : fields \in
            {<<KV("confirm", <<7>>), KV("arm", <<8>>), KV("ms", <<9>>)>>,
             <<KV("confirm", <<8>>), KV("x", << >>), KV("confirm", <<7>>)>>,
             <<KV("confirm", <<7>>), KV("", <<1>>)>>,
             <<KV("confirm", <<7>>), KV("token", <<20>>)>>,
             << >>}}
    \cup {Cmd("led", <<KV("mask", mask), KV("valid", <<3>>)>>) : mask \in {<<15, 5>>, <<16>>}}
    \cup {Cmd("display", <<KV("text", text)>>) : text \in {<< >>, <<20, 21>>, <<20, 20, 20>>}}
    \cup {Cmd("other", << >>), [topic |-> "led", payload |-> << >>]}
=============================================================================
