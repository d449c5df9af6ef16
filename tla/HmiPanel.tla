------------------------------ MODULE HmiPanel ------------------------------
(***************************************************************************)
(* The panel of the HMI board (smb-hmi/smb_main): the logo and its moving  *)
(* circles while setup waits for the BBB; then the loop of keys, display,  *)
(* message box and data.  The loop is sequential.  Data that has changed   *)
(* is marked in a bitmap and only what is marked is drawn again; a menu is *)
(* drawn anew only when its flag says REDRAW.                              *)
(*                                                                         *)
(* What is on the screen is kept per field, column by column: what is      *)
(* drawn over something wider, or beside it, leaves the rest of that.  A   *)
(* column is a glyph; in the row of the temperature and the humidity,      *)
(* whose places differ from one drawing to the next, it is two pixels.     *)
(* Colours, pixel rows (the numbers of that row are five lower than the    *)
(* glyphs beside them), what the box covers and the drawing itself are     *)
(* left out.  How the keep-alive is answered and how the data gets into    *)
(* the registers is the matter of HmiLink and StationInfo; here each poll  *)
(* may end in every way it can.                                            *)
(***************************************************************************)
EXTENDS Integers, Sequences, Functions

CONSTANTS
  Values,      \* Values[f]: what field f may hold; a function on a set of fields
  Totals,      \* numbers of stations the BBB tells, 0 among them
  Junk         \* stations a division by zero leaves

Fields     == DOMAIN Values
TopFields  == Fields \cap {"busNum", "year", "month", "day", "hour", "min"}
ZoneFields == Fields \ TopFields

ASSUME HmiPanelAssumption ==
  /\ Fields \subseteq {"busNum", "year", "month", "day", "hour", "min",
                       "station", "passenger", "weather", "ultraViolet",
                       "temperature", "humidity"}
  /\ \A f \in Fields : Values[f] \subseteq 0..255 /\ 0 \in Values[f]
  /\ Totals \subseteq 0..254 /\ Junk \subseteq 0..255

VARIABLES
  pc,        \* "wait" in setup; in the loop "key", "draw", "parse"
  current,   \* the current menu
  disFlg,    \* disFlg[m]: REDRAW or REFRESH
  db,        \* modDB: the value of each field
  bits,      \* the fields whose bit is set in a displayBitMap
  shown,     \* what the screen shows of each field
  box,       \* the error in the message box on the screen, or eNA: no box
  errNo,     \* modDB.errNo
  total,     \* tBusInfo.totalStations
  manu,      \* tBusInfo.manuCurrStation
  unmarked,  \* history: a poll has changed the station and given up before
             \* it was marked, and it has not been drawn since
  logo       \* printVendorLogo: x_pos, direction, the circles on the screen

data == <<db, bits, total, unmarked>>
vars == <<pc, current, disFlg, data, shown, box, errNo, manu, logo>>

Menus == {"xinXi", "sheZhi"}
NONE  == 255                     \* no station chosen
Wrong == "wrong"                 \* a glyph of another font

-----------------------------------------------------------------------------
(* What a field's value looks like.  Levels have a text of their own, the  *)
(* weather and the ultraviolet level sometimes of two glyphs; unknown      *)
(* levels have none.  The top line is padded, a station is printed with    *)
(* all its glyphs: one block here.                                         *)
Text(f, v) ==
  CASE f = "weather" -> CASE v = 0 -> <<"qing">> [] v = 1 -> <<"duo", "yun">>
                          [] v = 2 -> <<"yin">> [] v = 3 -> <<"yu">>
                          [] OTHER -> <<>>
    [] f = "ultraViolet" -> CASE v = 0 -> <<"ruo">> [] v = 1 -> <<"qiang">>
                              [] v = 2 -> <<"chao", "qiang">> [] OTHER -> <<>>
    [] f = "passenger" -> IF v \in 0..3 THEN <<v>> ELSE <<>>
    [] OTHER -> <<v>>

(* Temperature and humidity are printed digit by digit, beside the degree  *)
(* sign and behind a label.                                                *)
Digits(v) == IF v < 10 THEN <<v>>
             ELSE IF v < 100 THEN <<v \div 10, v % 10>>
             ELSE <<v \div 100, (v \div 10) % 10, v % 10>>
Degree == 10
Label  == 11

(* The glyphs s from column x on, each w columns wide.                     *)
Strip(s, w, x) ==
  [c \in x .. x + w * Len(s) - 1 |-> <<s[(c - x) \div w + 1], (c - x) % w>>]

Over(new, old) ==
  [c \in DOMAIN new \cup DOMAIN old |-> IF c \in DOMAIN new THEN new[c] ELSE old[c]]

(* What is drawn of a field when its moving part, the degree sign or the   *)
(* humidity's label, is at column x; columns are counted from the place of *)
(* the temperature's number.                                               *)
Picture(f, v, x) ==
  CASE f = "temperature" -> Over(Strip(<<Degree>>, 16, x), Strip(Digits(v), 8, 0))
    [] f = "humidity" -> Over(Strip(Digits(v), 8, x + 48), Strip(<<Label>>, 48, x))
    [] OTHER -> Text(f, v)

(* That place when all of the menu is drawn, and when only what is marked  *)
(* is: then the humidity's place depends on what has been printed before.  *)
RedrawPlace(f)  == IF f = "temperature" THEN 20 ELSE 46
RefreshPlace(f) == IF f = "temperature" THEN 16
                   ELSE IF "temperature" \in bits THEN 42 ELSE 47
Places == {20, 46, 16, 42, 47}

Redrawn(f, v) == Picture(f, v, RedrawPlace(f))

-----------------------------------------------------------------------------
(* The logo.  Circles go right by Distance until the right border, then    *)
(* are cleared one by one on the way back.                                 *)
StartX == 20
Distance == 22
RightBorder == 444

LogoInit == [x |-> StartX - 3, back |-> FALSE, circles |-> {}]

(* Mutant: the right border is not looked at before a circle is drawn.     *)
MutLogoRight(l) ==
  [x |-> l.x + Distance, back |-> l.x > RightBorder,
   circles |-> l.circles \cup {l.x + Distance}]
LogoRight(l) ==
  LET nx == l.x + Distance IN
  IF nx > RightBorder THEN [l EXCEPT !.back = TRUE]
  ELSE [l EXCEPT !.x = nx, !.circles = @ \cup {nx}]

LogoLeft(l) ==
  IF l.x - Distance > 0
  THEN LET nx == l.x - Distance IN
       [x |-> IF nx < StartX THEN StartX ELSE nx, back |-> nx >= StartX,
        circles |-> l.circles \ {l.x}]
  ELSE [l EXCEPT !.x = StartX, !.back = FALSE]

-----------------------------------------------------------------------------
Zero == [f \in Fields |-> 0]
Blank == [f \in Fields |-> <<>>]

Init ==
  /\ pc = "wait" /\ current = "xinXi"
  /\ disFlg = [m \in Menus |-> "REDRAW"]
  /\ db = Zero /\ bits = {} /\ shown = Blank /\ box = "eNA" /\ errNo = "eNA"
  /\ total = 0 /\ manu = NONE /\ unmarked = FALSE /\ logo = LogoInit

(* The BBB is not ready; every fifth call draws. *)
LogoWait ==
  /\ pc = "wait"
  /\ logo' = IF logo.back THEN LogoLeft(logo) ELSE LogoRight(logo)
  /\ UNCHANGED <<pc, current, disFlg, data, shown, box, errNo, manu>>

(* All the data the registers may hold. *)
Datas == {d \in [Fields -> UNION Range(Values)] :
            \A f \in Fields : d[f] \in Values[f]}

(* The first poll sets no bits; it may fail before it has read anything.   *)
FirstPoll == \/ db' \in Datas /\ total' \in Totals
             \/ db' = db /\ total' = total

(* The first drawing of the screen is that of all fields. *)
FirstScreen == [f \in Fields |-> Redrawn(f, db'[f])]

(* The BBB is ready and has answered the login: the first poll, the menus, *)
(* the screen with the default menu.  No station is chosen.  The logo is   *)
(* not drawn again.                                                        *)
Setup ==
  /\ pc = "wait"
  /\ FirstPoll
  /\ shown' = FirstScreen
  /\ disFlg' = [disFlg EXCEPT !["xinXi"] = "REFRESH"]
  /\ pc' = "key" /\ logo' = LogoInit
  /\ UNCHANGED <<current, bits, unmarked, box, errNo, manu>>

-----------------------------------------------------------------------------
(* The keys.                                                               *)

GoMenu(m) ==
  /\ current' = m
  /\ disFlg' = [disFlg EXCEPT ![m] = "REDRAW"]
  /\ UNCHANGED manu

(* C and D: there are two menus, each is before and after the other. *)
Sibling == CHOOSE m \in Menus : m # current

(* A and B: the station before or after, modulo the number of stations.    *)
GoStation(step) ==
  /\ IF total = 0 THEN manu' \in Junk
     ELSE manu' = (manu + step + (IF step < 0 THEN total ELSE 0)) % total
  /\ UNCHANGED <<current, disFlg>>

(* The other keys change nothing that is looked at: what is typed in is    *)
(* given to functions that are empty.                                      *)
Key ==
  /\ pc = "key"
  /\ \/ GoMenu(Sibling)
     \/ GoMenu("xinXi")
     \/ GoStation(1)
     \/ GoStation(-1)
     \/ UNCHANGED <<current, disFlg, manu>>
  /\ pc' = "draw"
  /\ UNCHANGED <<data, shown, box, errNo, logo>>

-----------------------------------------------------------------------------
(* The display of one round: the top line, the current menu, the message.  *)

(* displayXinXi looks at the marked fields in this order; those before the *)
(* ultraviolet level set the font for it.  When none of them is marked the *)
(* font is still that of the top line, which has 9 glyphs.                 *)
FontSet == bits \cap {"station", "passenger", "weather"} # {}

(* What a refresh prints for a field: nothing for the second half of the   *)
(* weather.  Mutant: nor for numbers of two digits.                        *)
MutRefreshed(f) ==
  CASE f \in {"weather", "temperature"} /\ db[f] > 1 -> <<>>
    [] f = "ultraViolet" /\ ~ FontSet -> [i \in DOMAIN Text(f, db[f]) |-> Wrong]
    [] OTHER -> Picture(f, db[f], RefreshPlace(f))
Refreshed(f) ==
  CASE f = "weather" /\ db[f] > 1 -> <<>>
    [] f = "ultraViolet" /\ ~ FontSet -> [i \in DOMAIN Text(f, db[f]) |-> Wrong]
    [] OTHER -> Picture(f, db[f], RefreshPlace(f))

(* The top line is the same for all menus. *)
TopDrawn(f) == IF f \in bits THEN Text(f, db[f]) ELSE shown[f]

(* A REDRAW clears the zone and draws all of it; it leaves the bits as     *)
(* they are.  The settings show no data and look at no bit.                *)
XinXiRedrawn(f) == Redrawn(f, db[f])
XinXiRefreshed(f) == IF f \in bits THEN Over(Refreshed(f), shown[f]) ELSE shown[f]
SheZhiRedrawn(f) == <<>>
ZoneDrawn(f) ==
  CASE disFlg[current] = "REFRESH" ->
         IF current = "xinXi" THEN XinXiRefreshed(f) ELSE shown[f]
    [] OTHER -> IF current = "xinXi" THEN XinXiRedrawn(f) ELSE SheZhiRedrawn(f)
BitsCleared ==
  TopFields \cup
    (IF current = "xinXi" /\ disFlg[current] = "REFRESH" THEN ZoneFields ELSE {})

StationDrawn ==
  current = "xinXi" /\ (disFlg[current] = "REDRAW" \/ "station" \in bits)

(* popMsg draws its box in each round with an error. *)
Box == IF errNo # "eNA" THEN errNo
       ELSE IF disFlg[current] = "REDRAW" THEN "eNA" ELSE box

Draw ==
  /\ pc = "draw"
  /\ shown' = [f \in Fields |-> IF f \in TopFields THEN TopDrawn(f)
                                ELSE ZoneDrawn(f)]
  /\ bits' = bits \ BitsCleared
  /\ unmarked' = (unmarked /\ ~ StationDrawn)
  /\ disFlg' = [disFlg EXCEPT ![current] = "REFRESH"]
  /\ box' = Box
  /\ pc' = "parse"
  /\ UNCHANGED <<current, db, errNo, total, manu, logo>>

-----------------------------------------------------------------------------
(* parseModbusMsg.  How the keep-alive ends: it is not its time; the       *)
(* register cannot be read; no answer yet, or none was asked for; an       *)
(* answer; one miss too many.                                              *)
KeepAlives == {"notDue", "unread", "quiet", "answer", "missed"}

(* The errors a keep-alive clears.  Each time the current menu is to be    *)
(* drawn anew.  Mutant: not when the BBB is alive again.                   *)
Clears(k) == \/ errNo = "eCommLinkError" /\ k \in {"quiet", "answer", "missed"}
             \/ errNo = "eBBBDead" /\ k = "answer"
MutDrawAnew(k) == Clears(k) /\ errNo = "eCommLinkError"
DrawAnew(k) == Clears(k)

ErrorAfter(k) == CASE k = "unread" -> "eCommLinkError"
                   [] k = "missed" -> "eBBBDead"
                   [] OTHER -> IF Clears(k) THEN "eNA" ELSE errNo

(* Fields that get a new value are marked.  Mutant: the minute is not.     *)
MutMarked(d) == {f \in Fields : d[f] # db[f]} \ {"min"}
Marked(d) == {f \in Fields : d[f] # db[f]}

(* The second failed read of the fonts of a new station ends the poll: the *)
(* station has changed and is not marked, what is read after it stays.     *)
ReadLast == Fields \cap {"weather", "ultraViolet", "temperature", "humidity"}
GivesUp(d) == "station" \in Marked(d) /\ Marked(d) \cap ReadLast = {}

(* After an error the rest of the poll is left out.  Otherwise each block  *)
(* may be read, or its interval is not over; a read that fails leaves      *)
(* some other value.  A new station replaces the driver's choice.          *)
Poll(k) ==
  IF k \in {"unread", "missed"} THEN UNCHANGED <<data, manu>>
  ELSE \E d \in Datas :
         /\ db' = d
         /\ \/ bits' = bits \cup Marked(d) /\ UNCHANGED unmarked
            \/ /\ GivesUp(d)
               /\ bits' = bits \cup (Marked(d) \ {"station"})
               /\ unmarked' = TRUE
         /\ total' \in Totals \cup {total}
         /\ manu' = IF "station" \in Marked(d) THEN d["station"] ELSE manu

Parse ==
  /\ pc = "parse"
  /\ \E k \in KeepAlives :
       /\ errNo' = ErrorAfter(k)
       /\ disFlg' = IF DrawAnew(k) THEN [disFlg EXCEPT ![current] = "REDRAW"]
                    ELSE disFlg
       /\ Poll(k)
  /\ pc' = "key"
  /\ UNCHANGED <<current, shown, box, logo>>

-----------------------------------------------------------------------------
Next == LogoWait \/ Setup \/ Key \/ Draw \/ Parse
Spec == Init /\ [][Next]_vars

-----------------------------------------------------------------------------
TypeOK ==
  /\ pc \in {"wait", "key", "draw", "parse"}
  /\ current \in Menus /\ disFlg \in [Menus -> {"REDRAW", "REFRESH"}]
  /\ db \in Datas /\ bits \subseteq Fields /\ DOMAIN shown = Fields
  /\ {box, errNo} \subseteq {"eNA", "eCommLinkError", "eBBBDead"}
  /\ total \in Totals \cup {0} /\ manu \in 0..255 /\ unmarked \in BOOLEAN
  /\ logo.circles \subseteq 0..RightBorder

(* When a round has been drawn there is a message box on the screen just   *)
(* as long as there is an error, whatever menu the driver has gone to      *)
(* since the error came or went (the REDRAW flag of the then current menu, *)
(* smb_hmi.cpp 552-568).                                                   *)
BoxMatchesError == pc = "parse" => box = errNo

(* When a round has been drawn, the fields whose texts are one block and   *)
(* whose font is their own show the data, in the top line in every menu:   *)
(* but a passenger level without a text, where a refresh leaves the text   *)
(* of the level before, and a station whose fonts a poll gave up on        *)
(* (smb_hmi.cpp 797), until the next drawing of the station.               *)
Steady == TopFields \cup
  {f \in Fields \cap {"station", "passenger"} :
     Text(f, db[f]) # <<>> /\ (f = "station" => ~ unmarked)}
SteadyShown ==
  pc = "parse" => \A f \in Steady :
    f \in TopFields \/ current = "xinXi" => shown[f] = Text(f, db[f])

(* In the zone, the data lie whole on top of what is left of older ones,   *)
(* at one of the places they are drawn at; or the screen shows the old     *)
(* weather, glyphs of the top line's font, or the station before the one   *)
(* whose fonts a poll gave up on.                                          *)
OnTop(p, s) == DOMAIN p \subseteq DOMAIN s /\ Restrict(s, DOMAIN p) = p
TraceKnown(f) ==
  \/ \E x \in Places : OnTop(Picture(f, db[f], x), shown[f])
  \/ f = "weather" /\ db[f] > 1
  \/ f = "ultraViolet" /\ shown[f][1] = Wrong
  \/ f = "station" /\ unmarked
TracesKnown ==
  pc = "parse" /\ current = "xinXi" =>
    \A f \in ZoneFields : TraceKnown(f)

(* A comment of the loop says that the screen is refreshed when new data   *)
(* was updated: so every round shows the weather.  It does not.            *)
ScreenFollowsData ==
  pc = "parse" /\ current = "xinXi" =>
    shown["weather"] = Text("weather", db["weather"])

=============================================================================
