--------------------------- MODULE HmiPanelProofs ---------------------------
(***************************************************************************)
(* Proofs about HmiPanel, for any fields and any values they may hold: the *)
(* message box goes with its error, and what the bitmap and the flags of   *)
(* the menus leave undrawn is still right on the screen.                   *)
(***************************************************************************)
EXTENDS HmiPanel, TLAPS

-----------------------------------------------------------------------------
(* The invariant.                                                          *)

Errors == {"eNA", "eCommLinkError", "eBBBDead"}

(* The logo on its way stays between the borders. *)
LogoFits(l) ==
  /\ DOMAIN l = {"x", "back", "circles"}
  /\ l.x \in StartX - 3 .. RightBorder /\ l.circles \subseteq 0 .. RightBorder

(* The types, with those of the logo on its way.                           *)
PanelType == TypeOK /\ LogoFits(logo)

(* An error that has gone leaves its box only as long as the current menu  *)
(* is still to be drawn anew.                                              *)
BoxInv ==
  /\ pc = "wait" => box = "eNA" /\ errNo = "eNA"
  /\ pc = "parse" => box = errNo /\ disFlg[current] = "REFRESH"
  /\ pc # "parse" /\ errNo = "eNA" /\ box # "eNA"
       => disFlg[current] = "REDRAW"

(* The screen s of field f is right for the value v, or has a known trace. *)
Right(f, v, s) ==
  /\ \/ \E x \in Places : OnTop(Picture(f, v, x), s)
     \/ f = "weather" /\ v > 1
     \/ f = "ultraViolet" /\ s[1] = Wrong
  /\ f \in {"station", "passenger"} /\ Text(f, v) # <<>> => s = Text(f, v)

(* What is neither marked nor to be drawn anew is right on the screen, but *)
(* for a station that has not been marked.                                 *)
ToDraw(f) == pc # "parse" /\ f \in bits
Exempt(f) == f = "station" /\ unmarked
ScreenInv ==
  /\ pc # "wait" =>
       \A f \in TopFields : ToDraw(f) \/ shown[f] = Text(f, db[f])
  /\ pc # "wait" /\ current = "xinXi" /\ disFlg["xinXi"] = "REFRESH" =>
       \A f \in ZoneFields : ToDraw(f) \/ Exempt(f) \/ Right(f, db[f], shown[f])
  /\ \A f \in Fields \cap {"station", "passenger"} : DOMAIN shown[f] \subseteq {1}

IInv == PanelType /\ BoxInv /\ ScreenInv

-----------------------------------------------------------------------------
(* Texts and pictures.                                                     *)

Function(p) == p = [c \in DOMAIN p |-> p[c]]

LEMMA Tuples ==
  /\ Function(<<>>) /\ DOMAIN <<>> = {}
  /\ \A a : Function(<<a>>) /\ DOMAIN <<a>> = {1} /\ <<a>> # <<>>
  /\ \A a, b : Function(<<a, b>>)
BY DEF Function

LEMMA TextFunction == \A f, v : Function(Text(f, v))
<1> TAKE f, v
<1>1. CASE f = "weather"
  BY <1>1, Tuples DEF Text
<1>2. CASE f = "ultraViolet"
  BY <1>2, Tuples DEF Text
<1>3. CASE f = "passenger"
  BY <1>3, Tuples DEF Text
<1>4. CASE f \notin {"weather", "ultraViolet", "passenger"}
  BY <1>4, Tuples DEF Text
<1>5. QED
  BY <1>1, <1>2, <1>3, <1>4

(* The texts of one block at most. *)
LEMMA TextBlock ==
  ASSUME NEW f \in {"station", "passenger"}, NEW v
  PROVE  /\ DOMAIN Text(f, v) \subseteq {1}
         /\ Text(f, v) # <<>> => DOMAIN Text(f, v) = {1}
<1>1. CASE f = "station"
  BY <1>1, Tuples DEF Text
<1>2. CASE f = "passenger"
  BY <1>2, Tuples DEF Text
<1>3. QED
  BY <1>1, <1>2

(* What is drawn lies on top.                                              *)
LEMMA OverIs ==
  ASSUME NEW new, NEW old, Function(new)
  PROVE  /\ Function(Over(new, old)) /\ OnTop(new, Over(new, old))
         /\ DOMAIN Over(new, old) = DOMAIN new \cup DOMAIN old
         /\ \A c \in DOMAIN new : Over(new, old)[c] = new[c]
         /\ DOMAIN old \subseteq DOMAIN new => Over(new, old) = new
BY DEF Function, Over, OnTop, Restrict

LEMMA OnTopSelf == \A p : Function(p) => OnTop(p, p)
BY DEF Function, OnTop, Restrict

LEMMA OnTopEmpty == \A s : OnTop(<<>>, s)
BY Tuples DEF OnTop, Restrict

LEMMA PictureFunction == \A f, v, x : Function(Picture(f, v, x))
<1> TAKE f, v, x
<1>1. \A g, w, y : Function(Strip(g, w, y))
  BY DEF Function, Strip
<1>2. CASE f = "temperature"
  BY <1>1, <1>2, OverIs DEF Picture
<1>3. CASE f = "humidity"
  BY <1>1, <1>3, OverIs DEF Picture
<1>4. CASE f \notin {"temperature", "humidity"}
  BY <1>4, TextFunction DEF Picture
<1>5. QED
  BY <1>2, <1>3, <1>4

(* All but the two numbers have one place. *)
LEMMA PictureText ==
  \A f, v, x : f \notin {"temperature", "humidity"} => Picture(f, v, x) = Text(f, v)
BY DEF Picture

LEMMA PlacesOK ==
  \A f : RedrawPlace(f) \in Places /\ RefreshPlace(f) \in Places
BY DEF RedrawPlace, RefreshPlace, Places

(* A field just drawn with its menu is right. *)
LEMMA RedrawnRight ==
  ASSUME NEW f, NEW v
  PROVE  /\ Right(f, v, Redrawn(f, v))
         /\ f \in TopFields => Redrawn(f, v) = Text(f, v)
         /\ f \in {"station", "passenger"} => DOMAIN Redrawn(f, v) \subseteq {1}
<1>1. OnTop(Redrawn(f, v), Redrawn(f, v))
  BY OnTopSelf, PictureFunction DEF Redrawn
<1>2. f \notin {"temperature", "humidity"} => Redrawn(f, v) = Text(f, v)
  BY PictureText DEF Redrawn
<1>3. f \in TopFields => f \notin {"temperature", "humidity"}
  BY DEF TopFields
<1>4. \E x \in Places : OnTop(Picture(f, v, x), Redrawn(f, v))
  BY <1>1, PlacesOK DEF Redrawn
<1>5. QED
  BY <1>2, <1>3, <1>4, TextBlock DEF Right

LEMMA DataType ==
  ASSUME NEW d \in Datas PROVE \A f \in Fields : d[f] \in 0..255
<1> TAKE f \in Fields
<1>1. d[f] \in Values[f]
  BY DEF Datas
<1>2. Values[f] \subseteq 0..255
  BY HmiPanelAssumption
<1>3. QED
  BY <1>1, <1>2

LEMMA ZeroData == Zero \in Datas
<1>1. \A f \in Fields : 0 \in Values[f] /\ Values[f] \in Range(Values)
  BY HmiPanelAssumption DEF Range, Fields
<1>2. Zero \in [Fields -> UNION Range(Values)]
  BY <1>1 DEF Zero
<1>3. QED
  BY <1>1, <1>2 DEF Datas, Zero

-----------------------------------------------------------------------------
(* The initial states and the types.                                       *)

LEMMA InitInv == Init => IInv
<1> SUFFICES ASSUME Init PROVE IInv
  OBVIOUS
<1>1. TypeOK
  <2>1. db \in Datas /\ bits \subseteq Fields /\ DOMAIN shown = Fields
    BY ZeroData DEF Init, Blank
  <2>2. manu \in 0..255 /\ total \in Totals \cup {0}
    BY DEF Init, NONE
  <2>3. /\ pc = "wait" /\ current \in Menus /\ box = "eNA" /\ errNo = "eNA"
        /\ unmarked \in BOOLEAN
        /\ disFlg \in [Menus -> {"REDRAW", "REFRESH"}] /\ logo.circles = {}
    BY DEF Init, Menus, LogoInit
  <2>4. QED
    BY <2>1, <2>2, <2>3 DEF TypeOK
<1>2. \A f \in Fields : DOMAIN shown[f] = {}
  BY Tuples DEF Init, Blank
<1>4. LogoFits(logo)
  BY DEF Init, LogoInit, LogoFits, StartX, RightBorder
<1>5. BoxInv
  BY DEF Init, BoxInv
<1>6. ScreenInv
  BY <1>2 DEF Init, ScreenInv
<1>7. QED
  BY <1>1, <1>4, <1>5, <1>6 DEF IInv, PanelType

LEMMA LogoType ==
  ASSUME NEW l, LogoFits(l)
  PROVE  LogoFits(LogoRight(l)) /\ LogoFits(LogoLeft(l))
<1>1. LogoFits(LogoRight(l))
  BY DEF LogoFits, LogoRight, StartX, RightBorder, Distance
<1>2. LogoFits(LogoLeft(l))
  BY DEF LogoFits, LogoLeft, StartX, RightBorder, Distance
<1>3. QED
  BY <1>1, <1>2

LEMMA SiblingType == current \in Menus => Sibling \in Menus
BY DEF Sibling, Menus

LEMMA PollType ==
  ASSUME PanelType, NEW k, Poll(k)
  PROVE  /\ db' \in Datas /\ bits' \subseteq Fields /\ unmarked' \in BOOLEAN
         /\ total' \in Totals \cup {0} /\ manu' \in 0..255
<1>1. CASE UNCHANGED <<data, manu>>
  BY <1>1 DEF data, PanelType, TypeOK
<1>2. CASE ~ UNCHANGED <<data, manu>>
  <2>1. PICK d \in Datas :
          /\ db' = d
          /\ \/ bits' = bits \cup Marked(d) /\ UNCHANGED unmarked
             \/ bits' = bits \cup (Marked(d) \ {"station"}) /\ unmarked' = TRUE
          /\ total' \in Totals \cup {total}
          /\ manu' = IF "station" \in Marked(d) THEN d["station"] ELSE manu
    BY <1>2 DEF Poll
  <2>2. Marked(d) \subseteq Fields
    BY DEF Marked
  <2>3. manu' \in 0..255
    <3>1. manu \in 0..255
      BY DEF PanelType, TypeOK
    <3>2. "station" \in Marked(d) => d["station"] \in 0..255
      BY <2>2, DataType
    <3>3. QED
      BY <2>1, <3>1, <3>2
  <2>4. bits' \subseteq Fields /\ unmarked' \in BOOLEAN
    BY <2>1, <2>2 DEF PanelType, TypeOK
  <2>5. QED
    BY <2>1, <2>3, <2>4 DEF PanelType, TypeOK
<1>3. QED
  BY <1>1, <1>2

LEMMA Bounds == Totals \subseteq 0..254 /\ Junk \subseteq 0..255
BY HmiPanelAssumption, Zenon

(* The station keys compute modulo the number of stations. *)
LEMMA StationType ==
  ASSUME PanelType, NEW step \in {1, -1}, GoStation(step)
  PROVE  manu' \in 0..255
<1>1. total \in 0..254 /\ manu \in 0..255
  <2>1. total \in Totals \cup {0} /\ manu \in 0..255
    BY Zenon DEF PanelType, TypeOK
  <2>2. QED
    BY <2>1, Bounds
<1>2. CASE total = 0
  <2>1. manu' \in Junk
    BY <1>2 DEF GoStation
  <2>2. QED
    BY <2>1, Bounds
<1>3. CASE total # 0
  <2> DEFINE n == manu + step + (IF step < 0 THEN total ELSE 0)
  <2>1. n \in Int /\ total \in 1..254
    BY <1>1, <1>3
  <2>2. n % total \in 0..254
    BY <2>1
  <2>3. QED
    BY <1>3, <2>2 DEF GoStation
<1>4. QED
  BY <1>2, <1>3

LEMMA TypeStep == IInv /\ [Next]_vars => PanelType'
<1> SUFFICES ASSUME IInv, [Next]_vars PROVE PanelType'
  OBVIOUS
<1> USE DEF IInv, PanelType
<1>1. CASE LogoWait
  <2>1. LogoFits(logo')
    BY <1>1, LogoType DEF LogoWait
  <2>2. QED
    BY <1>1, <2>1 DEF LogoWait, data, TypeOK, LogoFits
<1>2. CASE Setup
  <2>1. db' \in Datas /\ total' \in Totals \cup {0}
    BY <1>2 DEF Setup, FirstPoll, TypeOK
  <2>2. DOMAIN shown' = Fields
    BY <1>2 DEF Setup, FirstScreen
  <2>3. LogoFits(logo)'
    BY <1>2 DEF Setup, LogoInit, LogoFits, StartX, RightBorder
  <2>4. disFlg' \in [Menus -> {"REDRAW", "REFRESH"}]
    BY <1>2 DEF Setup, TypeOK
  <2>5. /\ pc' = "key" /\ UNCHANGED <<current, bits, unmarked, box, errNo, manu>>
    BY <1>2 DEF Setup
  <2>6. QED
    BY <2>1, <2>2, <2>3, <2>4, <2>5 DEF TypeOK, LogoFits
<1>3. CASE Key
  <2>1. /\ current' \in Menus /\ disFlg' \in [Menus -> {"REDRAW", "REFRESH"}]
        /\ manu' \in 0..255
    <3>1. ASSUME NEW m \in Menus, GoMenu(m) PROVE <2>1
      BY <3>1 DEF GoMenu, TypeOK
    <3>2. CASE GoMenu(Sibling) \/ GoMenu("xinXi")
      BY <3>1, <3>2, SiblingType DEF Menus, TypeOK
    <3>3. CASE GoStation(1) \/ GoStation(-1)
      <4>1. manu' \in 0..255
        BY <3>3, StationType
      <4>2. UNCHANGED <<current, disFlg>>
        BY <3>3 DEF GoStation
      <4>3. QED
        BY <4>1, <4>2 DEF TypeOK
    <3>4. CASE UNCHANGED <<current, disFlg, manu>>
      BY <3>4 DEF TypeOK
    <3>5. QED
      BY <1>3, <3>2, <3>3, <3>4 DEF Key
  <2>2. pc' = "draw" /\ UNCHANGED <<data, shown, box, errNo, logo>>
    BY <1>3 DEF Key
  <2>3. QED
    BY <2>1, <2>2 DEF TypeOK, data
<1>4. CASE Draw
  <2>1. DOMAIN shown' = Fields /\ unmarked' \in BOOLEAN
    BY <1>4 DEF Draw
  <2>2. bits' \subseteq Fields /\ disFlg' \in [Menus -> {"REDRAW", "REFRESH"}]
    BY <1>4 DEF Draw, TypeOK
  <2>3. box' \in Errors
    BY <1>4 DEF Draw, Box, TypeOK, Errors
  <2>4. pc' = "parse" /\ UNCHANGED <<current, db, errNo, total, manu, logo>>
    BY <1>4 DEF Draw
  <2>5. QED
    BY <2>1, <2>2, <2>3, <2>4 DEF TypeOK, Errors
<1>5. CASE Parse
  <2>1. PICK k \in KeepAlives :
          /\ errNo' = ErrorAfter(k)
          /\ disFlg' = IF DrawAnew(k)
                       THEN [disFlg EXCEPT ![current] = "REDRAW"] ELSE disFlg
          /\ Poll(k)
    BY <1>5 DEF Parse
  <2>2. errNo' \in Errors /\ disFlg' \in [Menus -> {"REDRAW", "REFRESH"}]
    BY <2>1 DEF ErrorAfter, TypeOK, Errors
  <2>3. pc' = "key" /\ UNCHANGED <<current, shown, box, logo>>
    BY <1>5 DEF Parse
  <2>4. /\ db' \in Datas /\ bits' \subseteq Fields /\ unmarked' \in BOOLEAN
        /\ total' \in Totals \cup {0} /\ manu' \in 0..255
    BY <2>1, PollType
  <2>5. QED
    BY <2>2, <2>3, <2>4 DEF TypeOK, Errors
<1>6. CASE UNCHANGED vars
  BY <1>6 DEF vars, data, TypeOK
<1>7. QED
  BY <1>1, <1>2, <1>3, <1>4, <1>5, <1>6 DEF Next

-----------------------------------------------------------------------------
(* The message box.                                                        *)

LEMMA BoxStep == IInv /\ [Next]_vars => BoxInv'
<1> SUFFICES ASSUME IInv, [Next]_vars PROVE BoxInv'
  OBVIOUS
<1>1. /\ current \in Menus /\ disFlg \in [Menus -> {"REDRAW", "REFRESH"}]
      /\ BoxInv
  BY DEF IInv, PanelType, TypeOK
<1>2. CASE LogoWait
  BY <1>1, <1>2 DEF LogoWait, BoxInv
<1>3. CASE Setup
  BY <1>1, <1>3 DEF Setup, BoxInv
<1>4. CASE Key
  <2>1. pc = "key" /\ pc' = "draw" /\ UNCHANGED <<box, errNo>>
    BY <1>4 DEF Key
  <2>2. CASE UNCHANGED <<current, disFlg>>
    BY <1>1, <2>1, <2>2 DEF BoxInv
  <2>3. ASSUME NEW m \in Menus, GoMenu(m) PROVE disFlg'[current'] = "REDRAW"
    BY <1>1, <2>3 DEF GoMenu
  <2>4. CASE disFlg'[current'] = "REDRAW"
    BY <2>1, <2>4 DEF BoxInv
  <2>5. QED
    BY <1>1, <1>4, <2>2, <2>3, <2>4, SiblingType DEF Key, GoStation, Menus
<1>5. CASE Draw
  BY <1>1, <1>5 DEF Draw, Box, BoxInv
<1>6. CASE Parse
  <2>1. PICK k \in KeepAlives :
          /\ errNo' = ErrorAfter(k)
          /\ disFlg' = IF DrawAnew(k)
                       THEN [disFlg EXCEPT ![current] = "REDRAW"] ELSE disFlg
    BY <1>6 DEF Parse
  <2>2. /\ pc = "parse" /\ pc' = "key" /\ UNCHANGED <<current, box>>
        /\ box = errNo
    BY <1>1, <1>6 DEF Parse, BoxInv
  <2>3. errNo' = "eNA" /\ box # "eNA" => Clears(k)
    BY <2>1, <2>2 DEF ErrorAfter
  <2>4. Clears(k) => disFlg'[current] = "REDRAW"
    BY <1>1, <2>1 DEF DrawAnew
  <2>5. QED
    BY <2>2, <2>3, <2>4 DEF BoxInv
<1>7. CASE UNCHANGED vars
  BY <1>1, <1>7 DEF vars, BoxInv
<1>8. QED
  BY <1>2, <1>3, <1>4, <1>5, <1>6, <1>7 DEF Next

-----------------------------------------------------------------------------
(* The screen.                                                             *)

(* A marked field drawn over what it showed is right. *)
LEMMA RefreshRight ==
  ASSUME NEW f, f \in {"station", "passenger"} => DOMAIN shown[f] \subseteq {1}
  PROVE  /\ Right(f, db[f], Over(Refreshed(f), shown[f]))
         /\ f \in {"station", "passenger"}
              => DOMAIN Over(Refreshed(f), shown[f]) \subseteq {1}
<1> DEFINE t == Text(f, db[f])
           s == shown[f]
<1>1. CASE f = "weather" /\ db[f] > 1
  BY <1>1 DEF Right
<1>2. CASE f = "ultraViolet" /\ ~ FontSet
  <2>1. Refreshed(f) = [i \in DOMAIN t |-> Wrong]
    BY <1>2 DEF Refreshed
  <2>2. CASE t = <<>>
    <3>1. Picture(f, db[f], 20) = <<>>
      BY <1>2, <2>2, PictureText
    <3>2. OnTop(Picture(f, db[f], 20), Over(Refreshed(f), s))
      BY <3>1, OnTopEmpty
    <3>3. QED
      BY <1>2, <3>2 DEF Right, Places
  <2>3. CASE t # <<>>
    <3>1. 1 \in DOMAIN t
      BY <1>2, <2>3 DEF Text
    <3>2. Function(Refreshed(f)) /\ Refreshed(f)[1] = Wrong /\ 1 \in DOMAIN Refreshed(f)
      BY <2>1, <3>1 DEF Function
    <3>3. Over(Refreshed(f), s)[1] = Wrong
      BY <3>2 DEF Over
    <3>4. QED
      BY <1>2, <3>3 DEF Right
  <2>4. QED
    BY <2>2, <2>3
<1>3. CASE ~ (f = "weather" /\ db[f] > 1) /\ ~ (f = "ultraViolet" /\ ~ FontSet)
  <2> DEFINE p == Picture(f, db[f], RefreshPlace(f))
  <2>1. Refreshed(f) = p
    BY <1>3 DEF Refreshed
  <2>2. Function(p) /\ OnTop(p, Over(p, s)) /\ DOMAIN Over(p, s) = DOMAIN p \cup DOMAIN s
        /\ (DOMAIN s \subseteq DOMAIN p => Over(p, s) = p)
    BY PictureFunction, OverIs
  <2>3. \E x \in Places : OnTop(Picture(f, db[f], x), Over(p, s))
    BY <2>2, PlacesOK
  <2>4. f \in {"station", "passenger"} =>
          /\ p = t /\ DOMAIN p \subseteq {1} /\ DOMAIN s \subseteq {1}
          /\ t # <<>> => DOMAIN p = {1}
    BY PictureText, TextBlock
  <2> HIDE DEF p
  <2>5. QED
    BY <2>1, <2>2, <2>3, <2>4 DEF Right
<1>4. QED
  BY <1>1, <1>2, <1>3

LEMMA FieldKinds ==
  /\ TopFields \cap {"station", "passenger"} = {}
  /\ TopFields \cup ZoneFields = Fields /\ TopFields \cap ZoneFields = {}
  /\ \A f \in Fields \cap {"station", "passenger"} : f \in ZoneFields
BY DEF TopFields, ZoneFields

LEMMA DrawScreen == IInv /\ Draw => ScreenInv'
<1> SUFFICES ASSUME IInv, Draw PROVE ScreenInv'
  OBVIOUS
<1>1. /\ pc = "draw" /\ pc' = "parse" /\ UNCHANGED <<current, db>>
      /\ shown' = [f \in Fields |-> IF f \in TopFields THEN TopDrawn(f)
                                    ELSE ZoneDrawn(f)]
      /\ unmarked' = (unmarked /\ ~ StationDrawn)
  BY DEF Draw
<1>2. ASSUME NEW f \in TopFields PROVE shown'[f] = Text(f, db'[f])
  <2>1. f \in Fields
    BY <1>2, FieldKinds
  <2>2. f \in bits \/ shown[f] = Text(f, db[f])
    BY <1>1, <1>2 DEF IInv, ScreenInv, ToDraw
  <2>3. QED
    BY <1>1, <1>2, <2>1, <2>2 DEF TopDrawn
<1>3. ASSUME NEW f \in ZoneFields
      PROVE  /\ current = "xinXi" => Exempt(f)' \/ Right(f, db'[f], shown'[f])
             /\ f \in {"station", "passenger"} => DOMAIN shown'[f] \subseteq {1}
  <2>1. f \in Fields /\ shown'[f] = ZoneDrawn(f)
    BY <1>1, <1>3, FieldKinds
  <2>2. f \in {"station", "passenger"} => DOMAIN shown[f] \subseteq {1}
    BY <2>1 DEF IInv, ScreenInv
  <2>3. CASE disFlg[current] # "REFRESH" /\ current = "xinXi"
    <3>1. shown'[f] = Redrawn(f, db[f])
      BY <2>1, <2>3 DEF ZoneDrawn, XinXiRedrawn
    <3>2. QED
      BY <1>1, <3>1, RedrawnRight
  <2>4. CASE disFlg[current] # "REFRESH" /\ current # "xinXi"
    <3>1. shown'[f] = <<>>
      BY <2>1, <2>4 DEF ZoneDrawn, SheZhiRedrawn
    <3>2. QED
      BY <2>4, <3>1, Tuples
  <2>5. CASE disFlg[current] = "REFRESH" /\ current # "xinXi"
    BY <2>1, <2>2, <2>5 DEF ZoneDrawn
  <2>6. CASE disFlg[current] = "REFRESH" /\ current = "xinXi" /\ f \in bits
    <3>1. shown'[f] = Over(Refreshed(f), shown[f])
      BY <2>1, <2>6 DEF ZoneDrawn, XinXiRefreshed
    <3>2. QED
      BY <1>1, <2>2, <3>1, RefreshRight
  <2>7. CASE disFlg[current] = "REFRESH" /\ current = "xinXi" /\ f \notin bits
    <3>1. shown'[f] = shown[f]
      BY <2>1, <2>7 DEF ZoneDrawn, XinXiRefreshed
    <3>2. Exempt(f) \/ Right(f, db[f], shown[f])
      BY <1>1, <1>3, <2>7 DEF IInv, ScreenInv, ToDraw
    <3>3. Exempt(f) => Exempt(f)'
      BY <1>1, <2>7 DEF Exempt, StationDrawn
    <3>4. QED
      BY <1>1, <2>2, <3>1, <3>2, <3>3
  <2>8. QED
    BY <2>3, <2>4, <2>5, <2>6, <2>7
<1>4. QED
  BY <1>1, <1>2, <1>3, FieldKinds DEF ScreenInv

(* The data a poll has changed are marked, but for the station of a poll   *)
(* that gives up.                                                          *)
LEMMA PollMarks ==
  ASSUME NEW k, Poll(k)
  PROVE  /\ \A f \in Fields :
              f \in bits' \/ (f \notin bits /\ db'[f] = db[f]) \/ Exempt(f)'
         /\ \A f : Exempt(f) => Exempt(f)'
<1>1. CASE UNCHANGED <<data, manu>>
  BY <1>1 DEF data, Exempt
<1>2. CASE ~ UNCHANGED <<data, manu>>
  <2>1. PICK d \in Datas :
          /\ db' = d
          /\ \/ bits' = bits \cup Marked(d) /\ UNCHANGED unmarked
             \/ bits' = bits \cup (Marked(d) \ {"station"}) /\ unmarked' = TRUE
    BY <1>2 DEF Poll
  <2>2. QED
    BY <2>1 DEF Marked, Exempt
<1>3. QED
  BY <1>1, <1>2

LEMMA ParseScreen == IInv /\ Parse => ScreenInv'
<1> SUFFICES ASSUME IInv, Parse PROVE ScreenInv'
  OBVIOUS
<1>1. PICK k \in KeepAlives :
        /\ disFlg' = IF DrawAnew(k)
                     THEN [disFlg EXCEPT ![current] = "REDRAW"] ELSE disFlg
        /\ Poll(k)
  BY DEF Parse
<1>2. pc = "parse" /\ pc' = "key" /\ UNCHANGED <<current, shown>>
  BY DEF Parse
<1>3. current = "xinXi" /\ disFlg'["xinXi"] = "REFRESH"
        => disFlg["xinXi"] = "REFRESH"
  BY <1>2 DEF IInv, BoxInv
<1>4. /\ \A f \in Fields : ToDraw(f)' \/ db'[f] = db[f] \/ Exempt(f)'
      /\ \A f : Exempt(f) => Exempt(f)'
  BY <1>1, <1>2, PollMarks DEF ToDraw
<1>5. \A f \in Fields : ~ ToDraw(f)
  BY <1>2 DEF ToDraw
<1>6. \A f \in TopFields : ~ Exempt(f)'
  BY FieldKinds DEF Exempt
<1>7. QED
  BY <1>2, <1>3, <1>4, <1>5, <1>6, FieldKinds DEF IInv, ScreenInv

LEMMA ScreenStep == IInv /\ [Next]_vars => ScreenInv'
<1> SUFFICES ASSUME IInv, [Next]_vars PROVE ScreenInv'
  OBVIOUS
<1>1. CASE LogoWait \/ UNCHANGED vars
  BY <1>1 DEF LogoWait, vars, data, IInv, ScreenInv, ToDraw, Exempt
<1>2. CASE Setup
  <2>1. pc' = "key" /\ shown' = [f \in Fields |-> Redrawn(f, db'[f])]
    BY <1>2 DEF Setup, FirstScreen
  <2>2. \A f \in Fields :
          /\ Right(f, db'[f], shown'[f])
          /\ f \in TopFields => shown'[f] = Text(f, db'[f])
          /\ f \in {"station", "passenger"} => DOMAIN shown'[f] \subseteq {1}
    BY <2>1, RedrawnRight
  <2>3. QED
    BY <2>1, <2>2, FieldKinds DEF ScreenInv
<1>3. CASE Key
  <2>1. pc = "key" /\ pc' = "draw" /\ UNCHANGED <<db, bits, unmarked, shown>>
    BY <1>3 DEF Key, data
  <2>2. CASE UNCHANGED <<current, disFlg>>
    BY <2>1, <2>2 DEF IInv, ScreenInv, ToDraw, Exempt
  <2>3. ASSUME NEW m \in Menus, GoMenu(m)
        PROVE  current' = m /\ disFlg'[m] = "REDRAW"
    BY <2>3 DEF GoMenu, IInv, PanelType, TypeOK
  <2>4. CASE disFlg'[current'] = "REDRAW"
    BY <2>1, <2>4 DEF IInv, ScreenInv, ToDraw, Exempt
  <2>5. Sibling \in Menus /\ "xinXi" \in Menus
    BY SiblingType DEF IInv, PanelType, TypeOK, Menus
  <2>6. QED
    BY <1>3, <2>2, <2>3, <2>4, <2>5 DEF Key, GoStation
<1>4. CASE Draw
  BY <1>4, DrawScreen
<1>5. CASE Parse
  BY <1>5, ParseScreen
<1>6. QED
  BY <1>1, <1>2, <1>3, <1>4, <1>5 DEF Next

-----------------------------------------------------------------------------
LEMMA Invariance == Spec => []IInv
<1>1. IInv /\ [Next]_vars => IInv'
  BY TypeStep, BoxStep, ScreenStep DEF IInv
<1>2. QED
  BY InitInv, <1>1, PTL DEF Spec

(* TypeOK: the registers' bytes stay bytes, the station keys included      *)
(* (parseKey), and the logo draws no circle beyond the right border, for   *)
(* ever so long a wait in setup (printVendorLogo).                         *)
THEOREM TypeCorrect == Spec => []TypeOK
<1>1. IInv => TypeOK
  BY DEF IInv, PanelType
<1>2. QED
  BY <1>1, Invariance, PTL

(* At the end of a round the message box on the screen is that of the      *)
(* error, or there is none: popMsg and the REDRAW that parseModbusMsg sets *)
(* for the current menu, whatever keys come between.                       *)
THEOREM BoxIsRight == Spec => []BoxMatchesError
<1>1. IInv => BoxMatchesError
  BY DEF IInv, BoxInv, BoxMatchesError
<1>2. QED
  BY <1>1, Invariance, PTL

(* The top line, the station and the passenger level on the screen are     *)
(* those of the data at the end of a round, whatever has been marked,      *)
(* drawn and left undrawn in other menus (displayXinXi, displaySheZhi),    *)
(* but for a station whose fonts parseModbusMsg gave up on.                *)
THEOREM SteadyIsShown == Spec => []SteadyShown
<1>1. ASSUME IInv, pc = "parse", NEW f \in Steady, f \in TopFields \/ current = "xinXi"
      PROVE  shown[f] = Text(f, db[f])
  <2>1. CASE f \in TopFields
    BY <1>1, <2>1 DEF IInv, ScreenInv, ToDraw
  <2>2. CASE f \notin TopFields
    <3>1. f \in Fields /\ f \in ZoneFields /\ f \in {"station", "passenger"}
          /\ Text(f, db[f]) # <<>> /\ ~ Exempt(f)
      BY <1>1, <2>2, FieldKinds DEF Steady, Exempt
    <3>2. disFlg["xinXi"] = "REFRESH"
      BY <1>1, <2>2 DEF IInv, BoxInv
    <3>3. Right(f, db[f], shown[f])
      BY <1>1, <2>2, <3>1, <3>2 DEF IInv, ScreenInv, ToDraw
    <3>4. QED
      BY <3>1, <3>3 DEF Right
  <2>3. QED
    BY <2>1, <2>2
<1>2. IInv => SteadyShown
  BY <1>1 DEF SteadyShown
<1>3. QED
  BY <1>2, Invariance, PTL

(* Each field of the zone has its data whole on top, at one of the places  *)
(* displayXinXi draws it at, or one of the three other known traces.       *)
THEOREM TracesAreKnown == Spec => []TracesKnown
<1>1. ASSUME IInv, pc = "parse", current = "xinXi", NEW f \in ZoneFields
      PROVE  TraceKnown(f)
  <2>1. disFlg["xinXi"] = "REFRESH"
    BY <1>1 DEF IInv, BoxInv
  <2>2. Exempt(f) \/ Right(f, db[f], shown[f])
    BY <1>1, <2>1 DEF IInv, ScreenInv, ToDraw
  <2>3. QED
    BY <2>2 DEF Right, TraceKnown, Exempt
<1>2. IInv => TracesKnown
  BY <1>1 DEF TracesKnown
<1>3. QED
  BY <1>2, Invariance, PTL

=============================================================================
