----------------------------- MODULE MCKeyboard -----------------------------
(***************************************************************************)
(* An instance of Keyboard for TLC: the mod key, Shift, and one more key,  *)
(* which is Escape, and an arrow with Shift held.                          *)
(***************************************************************************)
EXTENDS Keyboard

CONSTANTS super, shift, key, term

MCKey == {super, shift, key}
MCModOf == [k \in {super, shift} |-> IF k = super THEN "M" ELSE "S"]
MCSym == [k \in MCKey |-> [m \in SUBSET {"M", "S"} |->
    CASE k = super -> "Super" [] k = shift -> "Shift"
      [] OTHER -> IF "S" \in m THEN "Left" ELSE "Esc"]]

MCAction == {"lock", "passthrough", "overview", "pip", "spawn", "kill"}

Bind(sym, mods, app, action) == [sym |-> sym, mods |-> mods, app |-> app, action |-> action]
\* The plain symbol, bound with Shift, is found by the second try of match_keybind
MCKeybinds == <<
    Bind("Esc", {"M"}, None, "spawn"),
    Bind("Esc", {"M"}, term, "kill"),
    Bind("Left", {"M", "S"}, None, "lock"),
    Bind("Esc", {"S"}, None, "passthrough"),
    Bind("NoSymbol", {"M"}, None, "overview"),
    Bind("NoSymbol", {"M", "S"}, None, "lock") >>
=============================================================================
