------------------------------ MODULE Display -------------------------------
(***************************************************************************)
(* The OLED display (peripherals/display): its elements, what is drawn of  *)
(* them and what init() does to the screen.  A text is one character here, *)
(* since each character of an element has a change bit of its own.  I2c    *)
(* says when the operations run and on which thread.                       *)
(***************************************************************************)
EXTENDS Naturals, FiniteSets, SequencesExt

CONSTANT RefreshTime  \* Elements::REFRESH_TIME

\* The elements in the order in which they are drawn: messages are shown for a while, the others stay.
ElementOrder == <<"typeIn", "valueIn", "typeOut", "valueOut", "preset", "inMarker", "outMarker">>
Elements == {ElementOrder[i] : i \in DOMAIN ElementOrder}
Retained == {"typeIn", "valueIn", "typeOut", "valueOut"}

Blank == " "

DisplayDefaults == [welcome |-> FALSE, controller |-> "ssd1306", resolution |-> "128x64", eventTime |-> 0,
                    alternate |-> FALSE]

Element(text, now) == [text |-> text, change |-> text # Blank, at |-> now]

\* The markers and the buffers of the texts as the constructors leave them.
DisplayFresh ==
    [up |-> FALSE, address |-> 1, greeted |-> FALSE, resolution |-> "", retention |-> 0, alternate |-> FALSE, refreshed |-> 0,
     elements |-> [e \in Elements |-> IF e \in {"inMarker", "outMarker"} THEN Element(e, 0) ELSE Element(Blank, 0)]]

\* Mutant: the change of this text alone counts.
SetTextForgets(v, e, text, now) ==
    [v EXCEPT !.elements[e] = [text |-> text, change |-> text # @.text, at |-> now]]
\* set_text_raw(): a character that differs is to be drawn.
SetText(v, e, text, now) ==
    [v EXCEPT !.elements[e] = [text |-> text, change |-> @.change \/ text # @.text, at |-> now]]
SetTexts(v, texts, now) ==
    [v EXCEPT !.elements = [e \in Elements |-> IF e \in DOMAIN texts THEN SetText(v, e, texts[e], now).elements[e] ELSE @[e]]]

Cleared(v, gone, now) == SetTexts(v, [e \in gone |-> Blank], now)

\* set_retention_time(): with a time, the messages are cleared at once.
SetRetention(v, time, now) ==
    Cleared([v EXCEPT !.retention = time],
            IF time = 0 THEN {} ELSE {e \in Retained : v.elements[e].text # Blank}, now)

-----------------------------------------------------------------------------
\* init()

\* init_u8x8(): the layouts that there is a driver for.
Supported(s) == s.controller = "ssd1306" /\ s.resolution \in {"128x64", "128x32"}
DisplayRegisters(s) == [on |-> TRUE, resolution |-> s.resolution]

\* The driver is set up before the first transaction; init() falls out when there is none for the settings.
DisplayStart(v, s) == IF Supported(s) THEN v ELSE [v EXCEPT !.up = FALSE]

\* After the last transaction: the elements take over the settings and the preset, from 0.
DisplayReady(v, s, preset, now) ==
    SetText(SetRetention([v EXCEPT !.up = TRUE, !.greeted = TRUE, !.resolution = s.resolution, !.alternate = s.alternate],
                         s.eventTime, now),
            "preset", preset, now)

DisplayDeinit(v) == [v EXCEPT !.up = FALSE]

\* init_u8x8() clears the screen and touches no element.
ClearScreen == [e \in Elements |-> Blank]

-----------------------------------------------------------------------------
\* update()

RefreshDue(v, now) == now - v.refreshed >= RefreshTime

\* Elements::update() up to the drawing: messages that were retained for long enough go.
Expire(v, now) ==
    Cleared(v, IF v.retention = 0 THEN {}
               ELSE {e \in Retained : v.elements[e].text # Blank /\ now - v.elements[e].at > v.retention}, now)

\* ROW_MAP: the rows of 128x64 are apart.  For 128x32 the table has no entry of its own, so that all elements but
\* the preset, which has columns of its own, are on the same ones.
Place(e, resolution) == IF resolution = "128x64" \/ e = "preset" THEN e ELSE "typeIn"

\* The characters with a change bit are drawn, element by element, each a transaction: the last one at a place stays.
Pending(v) == {e \in Elements : v.elements[e].change}
Draw(v, screen) ==
    [place \in Elements |->
        LET drawn == {i \in DOMAIN ElementOrder : ElementOrder[i] \in Pending(v) /\ Place(ElementOrder[i], v.resolution) = place}
        IN IF drawn = {} THEN screen[place] ELSE v.elements[ElementOrder[Max(drawn)]].text]

\* clear_change() of what was drawn, when the drawing is over.  The code clears each element when its own drawing is
\* over: here one may still be overtaken after that, while the rest is drawn.
DisplayProcess(v, drawn, now) ==
    [v EXCEPT !.elements = [e \in Elements |-> IF e \in drawn THEN [@[e] EXCEPT !.change = FALSE] ELSE @[e]],
              !.refreshed = now]

-----------------------------------------------------------------------------
\* Handlers on the dispatcher.

\* The signals of messages and of presets: the type, and the value unless the type has none to show.
ShowMessage(v, type, value, message, now) ==
    SetTexts(v, [e \in {type} \cup {x \in {value} : message.valued} |->
                    IF e = type THEN message.type
                    ELSE IF v.alternate /\ message.note THEN message.name ELSE message.value], now)

\* sys_config_set(): the limits let every value of the enumerations pass, Count too; the time and the notes are
\* taken over before the value is stored, whether it will be or not.
DisplayWritten(v, setting, value, now) ==
    CASE setting = "eventTime" -> SetRetention(v, value, now)
      [] setting = "alternate" -> [v EXCEPT !.alternate = value]
      [] OTHER -> v
DisplayHandling(setting) == IF setting \in {"controller", "resolution"} THEN "init" ELSE "store"
=============================================================================
