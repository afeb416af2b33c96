---------------------------- MODULE Stores_proofs ----------------------------
(***************************************************************************)
(* Proofs about the stores, the users who sign in and those they refer,    *)
(* for every set of forms, codes, requests, people and links, any number   *)
(* of attempts and any sets of active levels.                              *)
(***************************************************************************)
EXTENDS StorePublication, SignIn, Referrals, FiniteSetTheorems, WellFoundedInduction, TLAPS

(***************************************************************************)
(* StorePublication                                                        *)
(***************************************************************************)

(* What a form in state k is about to make public or send to review has    *)
(* all the sections that are required.                                     *)
Asks(k) ==
  \/ k.next \in {"find", "write"}
  \/ k.next \in {"row", "status"} /\ k.row.status \in {"queue", "published"}

(* What form state k read was as the forms look at it, and a row that was  *)
(* public when it was read was reviewed.                                   *)
Sound(k) ==
  /\ k.next = "section" => ~k.public
  /\ k.next = "status" => k.row.status # "published"
  /\ k.row.info # "late"
  /\ k.next = "row" /\ k.row.status = "published" /\ ~history.unseen =>
       k.row.info \in {"reviewed", "card"}
  /\ Asks(k) => Complete

FormsSound == \A f \in Forms : Sound(form[f])

RowSound ==
  /\ market.info # "late"
  /\ market.status \in {"queue", "published"} \/ Pending # {} => Complete
  /\ market.status = "published" /\ ~history.unseen =>
       market.info \in {"reviewed", "card"}

ReviewInv == StoreTypeOK /\ FormsSound /\ RowSound /\ PublicIsReviewed

(* No section that is there goes away.                                     *)
SectionsStay == \A s \in Sections : section[s] # "missing" => section'[s] # "missing"

LEMMA CompleteStays ==
  ASSUME SectionsStay, Complete
  PROVE  Complete'
BY StoreAssumption DEF SectionsStay, Complete

(* One session at most is open or complete, unless a payment was forgotten *)
(* by the row, which otherwise says that it is paid.                       *)
OneSession ==
  ~history.forgotten =>
    /\ \A p, q \in Sessions : session[p] # "none" /\ session[q] # "none" => p = q
    /\ \A p \in Sessions : session[p] = "complete" => market.paid

----------------------------------------------------------------------------
(* The states that forms are put in *)

LEMMA FormTypes ==
  ASSUME StoreTypeOK
  PROVE  /\ NoForm \in FormState
         /\ \A part \in {"info", "images"} :
              /\ ReadsRow(part) \in FormState
              /\ [ReadsRow(part) EXCEPT !.row.info = "unreviewed"] \in FormState
         /\ \A part \in Parts : Revises(part) \in FormState
         /\ \A s \in Sections : SavesSection(s) \in FormState
         /\ \A s \in MarketStatus : SavesStatus(s) \in FormState
<1>. USE DEF StoreTypeOK
<1>1. /\ Draft \in MarketRow
      /\ market \in MarketRow
      /\ [market EXCEPT !.info = "unreviewed"] \in MarketRow
      /\ \A s \in MarketStatus : [Draft EXCEPT !.status = s] \in MarketRow
  BY DEF Draft, MarketRow, MarketStatus, Review
<1>2. NoForm \in FormState
  BY <1>1 DEF NoForm, FormState, Parts
<1>3. ASSUME NEW part \in {"info", "images"}
      PROVE  /\ ReadsRow(part) \in FormState
             /\ [ReadsRow(part) EXCEPT !.row.info = "unreviewed"] \in FormState
  <2>1. ReadsRow(part) \in FormState
    BY <1>1, <1>2 DEF ReadsRow, FormState, Parts
  <2>2. ReadsRow(part).row = market
    BY <1>2 DEF ReadsRow, NoForm, FormState
  <2>. QED BY <1>1, <2>1, <2>2 DEF FormState
<1>4. \A part \in Parts : Revises(part) \in FormState
  BY <1>2 DEF Revises, FormState
<1>5. ASSUME NEW s \in Sections PROVE SavesSection(s) \in FormState
  BY <1>2 DEF SavesSection, FormState, Parts
<1>6. ASSUME NEW s \in MarketStatus PROVE SavesStatus(s) \in FormState
  BY <1>1, <1>2 DEF SavesStatus, FormState, NoForm
<1>. QED BY <1>2, <1>3, <1>4, <1>5, <1>6

LEMMA FormValues ==
  /\ NoForm.next = "none" /\ NoForm.row = Draft
  /\ \A part : LET unreviewed == [ReadsRow(part) EXCEPT !.row.info = "unreviewed"]
              IN /\ ReadsRow(part).next = "row" /\ ReadsRow(part).row = market
                 /\ unreviewed.next = "row"
                 /\ unreviewed.row = [market EXCEPT !.info = "unreviewed"]
  /\ \A part : /\ Revises(part).next = "find" /\ Revises(part).row = Draft
  /\ \A s : /\ SavesSection(s).next = "section" /\ SavesSection(s).row = Draft
            /\ SavesSection(s).public = (market.status = "published")
  /\ \A s : /\ SavesStatus(s).next = "status"
            /\ SavesStatus(s).row = [Draft EXCEPT !.status = s]
BY DEF NoForm, ReadsRow, Revises, SavesSection, SavesStatus

LEMMA EditedRowSound ==
  ASSUME NEW k, k.next = "row", k.row.info = "unreviewed", k.row.status # "published",
         k.row.status = "queue" => Complete
  PROVE  Sound(k)
BY DEF Sound, Asks

(* A step of form f that takes nothing back from the others. *)
LEMMA OthersStaySound ==
  ASSUME StoreTypeOK, FormsSound, NEW f \in Forms, NEW k \in FormState, Does(f, k),
         SectionsStay, history.unseen => history'.unseen,
         Sound(k)'
  PROVE  form' \in [Forms -> FormState] /\ FormsSound'
<1>1. /\ form' \in [Forms -> FormState] /\ form'[f] = k
      /\ \A g \in Forms \ {f} : form'[g] = form[g]
  BY DEF StoreTypeOK, Does
<1>2. ASSUME NEW g \in Forms \ {f} PROVE Sound(form[g])'
  BY <1>1, <1>2, CompleteStays DEF FormsSound, Sound, Asks
<1>3. Sound(form[f])'
  BY <1>1 DEF Sound, Asks
<1>. QED BY <1>1, <1>2, <1>3 DEF FormsSound

LEMMA ReadKeeps ==
  ASSUME ReviewInv, NEW f \in Forms, NEW k \in FormState, Does(f, k), Sound(k),
         UNCHANGED <<market, section, revision, session, history>>
  PROVE  ReviewInv'
<1>1. Sound(k)' /\ SectionsStay
  BY DEF Sound, Asks, Complete, SectionsStay
<1>2. form' \in [Forms -> FormState] /\ FormsSound'
  BY <1>1, OthersStaySound DEF ReviewInv
<1>. QED BY <1>2 DEF ReviewInv, StoreTypeOK, RowSound, PublicIsReviewed, Pending, Complete

LEMMA FormsRead ==
  ASSUME ReviewInv, NEW f \in Forms,
         \/ EditInfo(f) \/ ChangeImage(f) \/ \E s \in Sections : EditSection(f, s)
         \/ \E s \in {"inactive", "queue", "editable"} : ChangeStatus(f, s)
  PROVE  ReviewInv'
<1>. USE DEF ReviewInv
<1>1. market \in MarketRow /\ market.info # "late"
  BY DEF StoreTypeOK, RowSound
<1>2. \A part : Sound(ReadsRow(part))
  BY <1>1, FormValues DEF Sound, Asks, RowSound
<1>3. ASSUME market.status # "published", NEW part
      PROVE  Sound([ReadsRow(part) EXCEPT !.row.info = "unreviewed"])
  <2>1. /\ [market EXCEPT !.info = "unreviewed"].info = "unreviewed"
        /\ [market EXCEPT !.info = "unreviewed"].status = market.status
    BY <1>1 DEF MarketRow
  <2>2. market.status = "queue" => Complete
    BY DEF RowSound
  <2>. DEFINE k == [ReadsRow(part) EXCEPT !.row.info = "unreviewed"]
  <2>3. k.next = "row" /\ k.row = [market EXCEPT !.info = "unreviewed"]
    BY FormValues
  <2>. HIDE DEF k
  <2>4. Sound(k)
    BY <1>3, <2>1, <2>2, <2>3, EditedRowSound
  <2>. QED BY <2>4 DEF k
<1>4. market.status = "published" => \A part : Sound(Revises(part))
  BY FormValues DEF Sound, Asks, RowSound, Draft
<1>5. ASSUME market.status # "published", NEW s PROVE Sound(SavesSection(s))
  <2>1. SavesSection(s).next = "section" /\ ~SavesSection(s).public
    BY <1>5 DEF SavesSection, NoForm
  <2>2. SavesSection(s).row.info = "unreviewed"
    BY DEF SavesSection, NoForm, Draft
  <2>. QED BY <2>1, <2>2 DEF Sound, Asks
<1>6. ASSUME NEW s \in {"inactive", "queue", "editable"}, MayBecome(s)
      PROVE  Sound(SavesStatus(s))
  <2>1. [Draft EXCEPT !.status = s].status = s /\ [Draft EXCEPT !.status = s].info # "late"
    BY DEF Draft
  <2>. QED BY <1>6, <2>1, FormValues DEF Sound, Asks, MayBecome
<1>7. CASE EditInfo(f)
  <2>1. PICK k \in FormState : Does(f, k) /\ Sound(k)
    BY <1>3, <1>4, <1>7, FormTypes DEF EditInfo, Parts
  <2>. QED BY <1>7, <2>1, ReadKeeps DEF EditInfo
<1>8. ASSUME NEW s \in Sections, EditSection(f, s) PROVE ReviewInv'
  <2>1. PICK k \in FormState : Does(f, k) /\ Sound(k)
    BY <1>4, <1>5, <1>8, FormTypes DEF EditSection, Parts
  <2>. QED BY <1>8, <2>1, ReadKeeps DEF EditSection
<1>9. CASE ChangeImage(f)
  BY <1>2, <1>9, FormTypes, ReadKeeps DEF ChangeImage
<1>10. ASSUME NEW s \in {"inactive", "queue", "editable"}, ChangeStatus(f, s)
       PROVE  ReviewInv'
  BY <1>6, <1>10, FormTypes, ReadKeeps DEF ChangeStatus, MarketStatus
<1>. QED BY <1>7, <1>8, <1>9, <1>10

----------------------------------------------------------------------------
(* What forms save *)

LEMMA EndsSound == Sound(NoForm)'
BY DEF Sound, Asks, NoForm, Draft

LEMMA SaveRowKeeps ==
  ASSUME ReviewInv, NEW f \in Forms, SaveRow(f)
  PROVE  ReviewInv'
<1>. USE DEF ReviewInv
<1>1. /\ market' = form[f].row /\ market' \in MarketRow
      /\ revision' = revision /\ session' = session
      /\ history' \in History /\ history'.unseen = history.unseen
      /\ market'.status = "published" /\ ~history'.republished =>
           market.status = "published" /\ ~history.republished
  BY DEF SaveRow, StoreTypeOK, FormState, History
<1>2. /\ section' \in [Sections \cup {"images"} -> Review \cup {"missing"}]
      /\ \A s \in Sections : section'[s] = section[s]
  BY StoreAssumption DEF SaveRow, StoreTypeOK, Review
<1>3. SectionsStay /\ (Complete => Complete')
  BY <1>2, CompleteStays DEF SectionsStay
<1>4. form' \in [Forms -> FormState] /\ FormsSound'
  BY <1>1, <1>3, FormTypes, EndsSound, OthersStaySound DEF SaveRow, Ends
<1>5. StoreTypeOK'
  BY <1>1, <1>2, <1>4 DEF StoreTypeOK
<1>6. RowSound'
  BY <1>1, <1>3 DEF RowSound, FormsSound, Sound, Asks, Pending, SaveRow
<1>7. PublicIsReviewed'
  BY <1>1, <1>2, <1>6 DEF PublicIsReviewed, RowSound
<1>. QED BY <1>4, <1>5, <1>6, <1>7

LEMMA SaveSectionKeeps ==
  ASSUME ReviewInv, NEW f \in Forms, SaveSection(f)
  PROVE  ReviewInv'
<1>. USE DEF ReviewInv
<1>1. /\ section' = [section EXCEPT ![form[f].part] =
                        IF market.status = "published" THEN "late" ELSE "unreviewed"]
      /\ UNCHANGED <<market, revision, session, history>>
  BY DEF SaveSection, FormsSound, Sound
<1>2. /\ section' \in [Sections \cup {"images"} -> Review \cup {"missing"}]
      /\ \A s \in Sections : \/ section'[s] = section[s]
                             \/ market.status = "published" /\ section'[s] = "late"
                             \/ market.status # "published" /\ section'[s] = "unreviewed"
  BY <1>1 DEF StoreTypeOK, Review
<1>3. SectionsStay /\ (Complete => Complete')
  BY <1>2, CompleteStays DEF SectionsStay
<1>4. form' \in [Forms -> FormState] /\ FormsSound'
  BY <1>1, <1>3, FormTypes, EndsSound, OthersStaySound DEF SaveSection, Ends
<1>5. StoreTypeOK'
  BY <1>1, <1>2, <1>4 DEF StoreTypeOK
<1>6. RowSound'
  BY <1>1, <1>3 DEF RowSound, Pending
<1>7. PublicIsReviewed'
  BY <1>1, <1>2 DEF PublicIsReviewed
<1>. QED BY <1>4, <1>5, <1>6, <1>7

LEMMA SaveStatusKeeps ==
  ASSUME ReviewInv, NEW f \in Forms, SaveStatus(f)
  PROVE  ReviewInv'
<1>. USE DEF ReviewInv
<1>1. /\ market' \in MarketRow /\ market'.info = market.info
      /\ market'.status = form[f].row.status /\ market'.status # "published"
      /\ UNCHANGED <<section, revision, session, history>>
  BY DEF SaveStatus, FormsSound, Sound, StoreTypeOK, FormState, MarketRow
<1>2. form' \in [Forms -> FormState] /\ FormsSound'
  <2>1. SectionsStay
    BY <1>1 DEF SectionsStay
  <2>. QED BY <1>1, <2>1, FormTypes, EndsSound, OthersStaySound DEF SaveStatus, Ends
<1>3. StoreTypeOK'
  BY <1>1, <1>2 DEF StoreTypeOK
<1>4. RowSound'
  BY <1>1 DEF RowSound, FormsSound, Sound, Asks, Pending, SaveStatus, Complete
<1>. QED BY <1>1, <1>2, <1>3, <1>4 DEF PublicIsReviewed

(* A form that found a revision, or none, is about to write it. *)
Writes(f, k) == k \in FormState /\ k.next = "write" /\ k.row = form[f].row

LEMMA FindMoves ==
  ASSUME StoreTypeOK, NEW f \in Forms, NEW x \in SUBSET Parts
  PROVE  /\ Writes(f, [form[f] EXCEPT !.next = "write", !.payload = x])
         /\ \A v \in Revisions :
              Writes(f, [form[f] EXCEPT !.next = "write", !.found = v, !.payload = x])
<1>1. form[f] \in FormState
  BY DEF StoreTypeOK
<1>. QED BY <1>1 DEF Writes, FormState

(* A form that has found the store public goes on to revise and queue it,  *)
(* which has a section.                                                    *)
LEMMA RevisesKeeps ==
  ASSUME ReviewInv, NEW f \in Forms,
         FindForSection(f) \/ FindForInfo(f) \/ WriteRevision(f)
  PROVE  ReviewInv'
<1>. USE DEF ReviewInv
<1>1. Complete /\ UNCHANGED <<market, section, session, history>>
  BY DEF FindForSection, FindForInfo, WriteRevision, FormsSound, Sound, Asks
<1>2. Complete' /\ SectionsStay
  BY <1>1 DEF Complete, SectionsStay
<1>3. /\ ThenQueue \in FormState /\ Sound(ThenQueue)'
      /\ NoForm \in FormState /\ Sound(NoForm)'
  <2>1. ThenQueue.next = "status" /\ ThenQueue.row = [Draft EXCEPT !.status = "queue"]
    BY FormValues DEF ThenQueue
  <2>2. ThenQueue.row.status = "queue" /\ ThenQueue.row.info # "late"
    BY <2>1 DEF Draft
  <2>3. Sound(ThenQueue)'
    BY <1>2, <2>1, <2>2 DEF Sound, Asks, ThenQueue, SavesStatus
  <2>. QED BY <2>3, FormTypes, EndsSound DEF ThenQueue, MarketStatus
<1>4. \E k \in FormState : Does(f, k) /\ Sound(k)'
  <2>1. ASSUME NEW k, Writes(f, k), form[f].next = "find"
        PROVE  k \in FormState /\ Sound(k)'
    BY <1>2, <1>1, <2>1 DEF Writes, FormsSound, Sound, Asks
  <2>2. {"info"} \in SUBSET Parts /\ \A s \in Sections : {s} \in SUBSET Parts
    BY DEF Parts
  <2>3. CASE FindForSection(f)
    <3> DEFINE s == form[f].part
    <3>1. form[f].next = "find" /\ s \in Sections
      BY <2>3 DEF FindForSection
    <3>. HIDE DEF s
    <3>2. \A v \in Pending : /\ v \in Revisions
                            /\ revision[v].payload \cup {s} \in SUBSET Parts
      BY <3>1 DEF Pending, StoreTypeOK, RevisionRow, Parts
    <3>3. PICK k : Does(f, k) /\ Writes(f, k)
      <4>1. CASE Does(f, [form[f] EXCEPT !.next = "write", !.payload = {s}])
        BY <2>2, <3>1, <4>1, FindMoves
      <4>2. ASSUME NEW v \in Pending,
                   Does(f, [form[f] EXCEPT !.next = "write", !.found = v,
                              !.payload = revision[v].payload \cup {s}])
            PROVE  \E k : Does(f, k) /\ Writes(f, k)
        BY <3>2, <4>2, FindMoves
      <4>. QED BY <2>3, <4>1, <4>2 DEF FindForSection, s
    <3>. QED BY <2>1, <3>1, <3>3
  <2>4. CASE FindForInfo(f)
    <3>1. CASE Does(f, [form[f] EXCEPT !.next = "write", !.payload = {"info"}])
      <4>1. Writes(f, [form[f] EXCEPT !.next = "write", !.payload = {"info"}])
        BY <2>2, FindMoves
      <4>. QED BY <2>1, <2>4, <3>1, <4>1 DEF FindForInfo
    <3>2. CASE Does(f, ThenQueue) \/ Ends(f)
      BY <1>3, <3>2 DEF Ends
    <3>. QED BY <2>4, <3>1, <3>2 DEF FindForInfo
  <2>5. CASE WriteRevision(f)
    BY <1>3, <2>5 DEF WriteRevision
  <2>. QED BY <2>3, <2>4, <2>5
<1>5. form' \in [Forms -> FormState] /\ FormsSound'
  BY <1>2, <1>1, <1>4, OthersStaySound
<1>6. revision' \in [Revisions -> RevisionRow]
  <2>1. CASE FindForSection(f)
    BY <2>1 DEF FindForSection, StoreTypeOK
  <2>2. CASE FindForInfo(f)
    BY <2>2 DEF FindForInfo, StoreTypeOK, RevisionRow, Parts, Pending
  <2>3. CASE WriteRevision(f)
    <3>1. form[f].payload \in SUBSET Parts
      BY DEF StoreTypeOK, FormState
    <3>2. [pending |-> TRUE, payload |-> form[f].payload] \in RevisionRow
      BY <3>1 DEF RevisionRow
    <3>. QED BY <2>3, <3>1, <3>2 DEF WriteRevision, StoreTypeOK, RevisionRow, Pending
  <2>. QED BY <2>1, <2>2, <2>3
<1>7. StoreTypeOK'
  BY <1>1, <1>5, <1>6 DEF StoreTypeOK
<1>. QED BY <1>2, <1>1, <1>5, <1>7 DEF RowSound, PublicIsReviewed

----------------------------------------------------------------------------
(* Staff, and steps that leave the forms alone *)

LEMMA StaySound ==
  ASSUME FormsSound, UNCHANGED form,
         SectionsStay, history.unseen => history'.unseen
  PROVE  FormsSound'
BY CompleteStays DEF FormsSound, Sound, Asks

(* A step that writes sections, and the row's information, as they may be. *)
LEMMA SectionsKeep ==
  ASSUME ReviewInv, UNCHANGED <<revision, form, session, history>>,
         section' \in [Sections \cup {"images"} -> Review \cup {"missing"}],
         market' \in MarketRow, market'.status = market.status,
         market'.info \in {market.info, "card"},
         \A s \in Sections : \/ section'[s] \in {section[s], "card"}
                            \/ /\ s \in Required /\ section[s] = "missing"
                               /\ section'[s] # "missing"
  PROVE  ReviewInv'
<1>. USE DEF ReviewInv
<1>1. SectionsStay /\ (Complete => Complete')
  BY CompleteStays DEF SectionsStay
<1>2. FormsSound'
  BY <1>1, StaySound
<1>3. StoreTypeOK' /\ RowSound'
  BY <1>1 DEF StoreTypeOK, RowSound, Pending
<1>4. PublicIsReviewed'
  BY <1>3 DEF PublicIsReviewed, RowSound, Complete
<1>. QED BY <1>2, <1>3, <1>4

LEMMA CreateSectionKeeps ==
  ASSUME ReviewInv, NEW s \in Required, CreateSection(s)
  PROVE  ReviewInv'
<1>1. /\ section' \in [Sections \cup {"images"} -> Review \cup {"missing"}]
      /\ section'[s] = "unreviewed" /\ section[s] = "missing"
      /\ \A x \in Sections \ {s} : section'[x] = section[x]
      /\ UNCHANGED <<market, revision, form, session, history>>
  BY StoreAssumption DEF CreateSection, ReviewInv, StoreTypeOK, Review
<1>. QED BY <1>1, SectionsKeep DEF ReviewInv, StoreTypeOK

LEMMA ChangeSliderKeeps ==
  ASSUME ReviewInv, ChangeSlider
  PROVE  ReviewInv'
<1>1. /\ section' \in [Sections \cup {"images"} -> Review \cup {"missing"}]
      /\ \A x \in Sections : section'[x] = section[x]
      /\ UNCHANGED <<market, revision, form, session, history>>
  BY StoreAssumption DEF ChangeSlider, ReviewInv, StoreTypeOK, Review
<1>. QED BY <1>1, SectionsKeep DEF ReviewInv, StoreTypeOK

LEMMA EditCardKeeps ==
  ASSUME ReviewInv, NEW parts, EditCard(parts)
  PROVE  ReviewInv'
<1>1. /\ section' \in [Sections \cup {"images"} -> Review \cup {"missing"}]
      /\ \A x \in Sections : section'[x] \in {section[x], "card"}
      /\ UNCHANGED <<revision, form, session, history>>
  BY DEF EditCard, ReviewInv, StoreTypeOK, Review
<1>2. /\ market' \in MarketRow /\ market'.status = market.status
      /\ market'.info \in {market.info, "card"}
  BY DEF EditCard, ReviewInv, StoreTypeOK, MarketRow, Review
<1>. QED BY <1>1, <1>2, SectionsKeep

LEMMA PublicationKeeps ==
  ASSUME ReviewInv, ApprovePublication \/ RefusePublication
  PROVE  ReviewInv'
<1>. USE DEF ReviewInv
<1>1. /\ section' \in [Sections \cup {"images"} -> Review \cup {"missing"}]
      /\ \A s \in Sections : section[s] = "missing" <=> section'[s] = "missing"
      /\ history' \in History /\ history'.unseen = history.unseen
      /\ UNCHANGED <<revision, form, session>>
  BY DEF ApprovePublication, RefusePublication, Published, StoreTypeOK, History, Review
<1>2. SectionsStay /\ Complete /\ Complete'
  <2>1. SectionsStay
    BY <1>1 DEF SectionsStay
  <2>2. Complete
    BY DEF ApprovePublication, RefusePublication, RowSound
  <2>. QED BY <2>1, <2>2, CompleteStays
<1>3. FormsSound'
  BY <1>1, <1>2, StaySound
<1>4. market' \in MarketRow /\ market'.info # "late"
  <2>1. CASE ApprovePublication
    BY <2>1 DEF ApprovePublication, MarketRow, MarketStatus, Review
  <2>2. CASE RefusePublication
    BY <2>2 DEF RefusePublication, StoreTypeOK, MarketRow, MarketStatus, RowSound
  <2>. QED BY <2>1, <2>2
<1>5. StoreTypeOK'
  BY <1>1, <1>4 DEF StoreTypeOK
<1>6. market'.status = "published" =>
        /\ market'.info = "reviewed"
        /\ \A s \in Sections : section'[s] \in {"reviewed", "missing"}
  BY DEF ApprovePublication, RefusePublication, Published, StoreTypeOK, MarketRow
<1>. QED BY <1>1, <1>2, <1>3, <1>4, <1>5, <1>6 DEF RowSound, PublicIsReviewed, Complete

LEMMA ApproveRevisionKeeps ==
  ASSUME ReviewInv, NEW v \in Revisions, ApproveRevision(v)
  PROVE  ReviewInv'
<1>. USE DEF ReviewInv
<1>. DEFINE seen == revision[v].payload
<1>1. /\ section' \in [Sections \cup {"images"} -> Review \cup {"missing"}]
      /\ \A s \in Sections :
           section'[s] = IF s \in seen THEN "reviewed" ELSE section[s]
      /\ UNCHANGED <<form, session>>
  BY DEF ApproveRevision, StoreTypeOK, Review
<1>2. SectionsStay /\ Complete /\ Complete'
  <2>1. SectionsStay
    BY <1>1 DEF SectionsStay
  <2>2. Complete
    BY DEF ApproveRevision, RowSound
  <2>. QED BY <2>1, <2>2, CompleteStays
<1>3. /\ history' \in History
      /\ history.unseen => history'.unseen
      /\ ~history'.unseen =>
           /\ "info" \in seen \/ market.info # "unreviewed"
           /\ \A s \in Sections : s \in seen \/ section[s] # "unreviewed"
  <2>. DEFINE unseen == \E part \in Parts \ seen : Unreviewed(part)
              h == history.unseen \/ unseen
  <2>1. history' = [history EXCEPT !.unseen = h]
    BY DEF ApproveRevision
  <2>2. h \in BOOLEAN /\ (history.unseen => h)
    BY DEF StoreTypeOK, History
  <2>3. ~unseen => /\ "info" \in seen \/ market.info # "unreviewed"
                   /\ \A s \in Sections : s \in seen \/ section[s] # "unreviewed"
    BY StoreAssumption DEF Parts, Unreviewed
  <2>4. ~h => ~unseen
    OBVIOUS
  <2>. HIDE DEF h, unseen
  <2>5. history' \in History /\ history'.unseen = h
    BY <2>1, <2>2 DEF StoreTypeOK, History
  <2>. QED BY <2>2, <2>3, <2>4, <2>5
<1>4. FormsSound'
  BY <1>1, <1>2, <1>3, StaySound
<1>5. /\ market' \in MarketRow /\ market'.info # "late"
      /\ market'.info = IF "info" \in seen THEN "reviewed" ELSE market.info
  BY DEF ApproveRevision, StoreTypeOK, MarketRow, MarketStatus, Review, RowSound
<1>6. revision' \in [Revisions -> RevisionRow]
  BY DEF ApproveRevision, StoreTypeOK, RevisionRow, NotPending
<1>7. StoreTypeOK'
  BY <1>1, <1>3, <1>5, <1>6 DEF StoreTypeOK
<1>8. market.info \in {"reviewed", "card", "unreviewed"}
  BY DEF StoreTypeOK, MarketRow, Review, RowSound
<1>9. ~history'.unseen =>
        /\ market'.info \in {"reviewed", "card"}
        /\ \A s \in Sections : section'[s] \in {"reviewed", "card", "late", "missing"}
  BY <1>1, <1>3, <1>5, <1>8 DEF StoreTypeOK, Review
<1>. QED BY <1>2, <1>4, <1>5, <1>7, <1>9 DEF RowSound, PublicIsReviewed, Complete

LEMMA RejectRevisionKeeps ==
  ASSUME ReviewInv, NEW v \in Revisions, RejectRevision(v)
  PROVE  ReviewInv'
<1>. USE DEF ReviewInv
<1>1. /\ UNCHANGED <<section, form, session, history>>
      /\ Complete /\ Complete' /\ SectionsStay
  BY DEF RejectRevision, RowSound, Complete, SectionsStay
<1>2. FormsSound'
  BY <1>1, StaySound
<1>3. market' \in MarketRow /\ market'.info = market.info /\ market'.status = "editable"
  BY DEF RejectRevision, StoreTypeOK, MarketRow, MarketStatus
<1>4. revision' \in [Revisions -> RevisionRow]
  BY DEF RejectRevision, StoreTypeOK, RevisionRow, NotPending
<1>5. StoreTypeOK'
  BY <1>1, <1>3, <1>4 DEF StoreTypeOK
<1>. QED BY <1>1, <1>2, <1>3, <1>5 DEF RowSound, PublicIsReviewed

LEMMA SubscriptionKeepsReview ==
  ASSUME ReviewInv, NEW p \in Sessions,
         Pay(p) \/ SessionOpens(p) \/ SessionEnds(p) \/ Verify(p)
  PROVE  ReviewInv'
<1>. USE DEF ReviewInv
<1>1. UNCHANGED <<section, revision, form, history>>
  BY DEF Pay, SessionOpens, SessionEnds, Verify
<1>2. /\ market' \in MarketRow
      /\ market'.info = market.info /\ market'.status = market.status
  BY DEF Pay, SessionOpens, SessionEnds, Verify, StoreTypeOK, MarketRow
<1>3. session' \in [Sessions -> SessionState]
  BY DEF Pay, SessionOpens, SessionEnds, Verify, StoreTypeOK, SessionState
<1>4. SectionsStay /\ (Complete => Complete')
  BY <1>1 DEF SectionsStay, Complete
<1>5. FormsSound'
  BY <1>1, <1>4, StaySound
<1>. QED BY <1>1, <1>2, <1>3, <1>4, <1>5 DEF StoreTypeOK, RowSound, PublicIsReviewed, Pending

----------------------------------------------------------------------------
LEMMA ReviewStarts == StoreInit => ReviewInv
<1> SUFFICES ASSUME StoreInit PROVE ReviewInv
  OBVIOUS
<1>1. Draft \in MarketRow /\ NotPending \in RevisionRow /\ NoForm \in FormState
  BY DEF Draft, MarketRow, MarketStatus, Review, NotPending, RevisionRow, NoForm, FormState,
         Parts
<1>2. StoreTypeOK
  BY <1>1 DEF StoreInit, StoreTypeOK, SessionState, History, Review
<1>3. FormsSound
  BY DEF StoreInit, FormsSound, Sound, Asks, NoForm, Draft
<1>. QED BY <1>2, <1>3 DEF StoreInit, ReviewInv, RowSound, PublicIsReviewed, Pending, Draft,
            NotPending

LEMMA ReviewStep == ReviewInv /\ [StoreNext]_storeVars => ReviewInv'
<1> SUFFICES ASSUME ReviewInv, [StoreNext]_storeVars PROVE ReviewInv'
  OBVIOUS
<1>1. CASE UNCHANGED storeVars
  BY <1>1 DEF storeVars, ReviewInv, StoreTypeOK, FormsSound, Sound, Asks, RowSound,
              PublicIsReviewed, Pending, Complete
<1>2. ASSUME NEW f \in Forms,
             \/ EditInfo(f) \/ ChangeImage(f) \/ Saves(f)
             \/ \E s \in Sections : EditSection(f, s)
             \/ \E s \in {"inactive", "queue", "editable"} : ChangeStatus(f, s)
      PROVE  ReviewInv'
  BY <1>2, FormsRead, SaveRowKeeps, SaveSectionKeeps, SaveStatusKeeps, RevisesKeeps
     DEF Saves
<1>3. CASE \/ ApprovePublication \/ RefusePublication \/ ChangeSlider
           \/ \E s \in Required : CreateSection(s)
           \/ \E parts \in SUBSET ({"info"} \cup Required) : EditCard(parts)
  BY <1>3, CreateSectionKeeps, ChangeSliderKeeps, EditCardKeeps, PublicationKeeps
<1>4. ASSUME NEW v \in Revisions, ApproveRevision(v) \/ RejectRevision(v) PROVE ReviewInv'
  BY <1>4, ApproveRevisionKeeps, RejectRevisionKeeps
<1>5. ASSUME NEW p \in Sessions, Pay(p) \/ SessionOpens(p) \/ SessionEnds(p) \/ Verify(p)
      PROVE  ReviewInv'
  BY <1>5, SubscriptionKeepsReview
<1>. QED BY <1>1, <1>2, <1>3, <1>4, <1>5 DEF StoreNext

(* The row, its revisions, the forms and the sessions keep their types. *)
THEOREM StoreTypes == StoreSpec => []StoreTypeOK
<1>1. ReviewInv => StoreTypeOK
  BY DEF ReviewInv
<1>. QED BY <1>1, ReviewStarts, ReviewStep, PTL DEF StoreSpec

(* However many forms save what they read before, and whatever staff decide *)
(* on it: each part that a published store shows went through staff, but    *)
(* for what its business card wrote and for the three races that history    *)
(* records.  The images are not among these parts: nobody reviews them.     *)
THEOREM PublicIsReviewedAlways == StoreSpec => []PublicIsReviewed
<1>1. ReviewInv => PublicIsReviewed
  BY DEF ReviewInv
<1>. QED BY <1>1, ReviewStarts, ReviewStep, PTL DEF StoreSpec

----------------------------------------------------------------------------
(* The subscription *)

LEMMA RowKeepsPaid ==
  ASSUME OneSession, UNCHANGED session, history.forgotten => history'.forgotten,
         history'.forgotten \/ (market.paid => market'.paid)
  PROVE  OneSession'
BY DEF OneSession

LEMMA FormsKeepPaid ==
  ASSUME StoreTypeOK, OneSession, NEW f \in Forms,
         \/ EditInfo(f) \/ ChangeImage(f) \/ Saves(f)
         \/ \E s \in Sections : EditSection(f, s)
         \/ \E s \in {"inactive", "queue", "editable"} : ChangeStatus(f, s)
  PROVE  OneSession'
<1>1. CASE SaveRow(f)
  <2>1. /\ UNCHANGED session /\ history.forgotten => history'.forgotten
        /\ history'.forgotten \/ (market.paid => market'.paid)
    BY <1>1 DEF SaveRow, StoreTypeOK, History, MarketRow, FormState
  <2>. QED BY <1>1, <2>1, RowKeepsPaid DEF SaveRow
<1>2. CASE SaveStatus(f)
  BY <1>2, RowKeepsPaid DEF SaveStatus, StoreTypeOK, MarketRow
<1>3. CASE SaveSection(f) \/ FindForSection(f) \/ FindForInfo(f) \/ WriteRevision(f)
  BY <1>3, RowKeepsPaid DEF SaveSection, FindForSection, FindForInfo, WriteRevision
<1>4. CASE EditInfo(f) \/ ChangeImage(f) \/ \E s \in Sections : EditSection(f, s)
  BY <1>4, RowKeepsPaid DEF EditInfo, EditSection, ChangeImage
<1>5. ASSUME NEW s \in {"inactive", "queue", "editable"}, ChangeStatus(f, s)
      PROVE  OneSession'
  BY <1>5, RowKeepsPaid DEF ChangeStatus
<1>. QED BY <1>1, <1>2, <1>3, <1>4, <1>5 DEF Saves

LEMMA StaffKeepPaid ==
  ASSUME StoreTypeOK, OneSession,
         \/ ApprovePublication \/ RefusePublication \/ ChangeSlider
         \/ \E s \in Required : CreateSection(s)
         \/ \E parts \in SUBSET ({"info"} \cup Required) : EditCard(parts)
         \/ \E v \in Revisions : ApproveRevision(v) \/ RejectRevision(v)
  PROVE  OneSession'
<1>1. UNCHANGED session /\ (market.paid => market'.paid)
  <2>1. CASE ApprovePublication \/ ChangeSlider \/ \E s \in Required : CreateSection(s)
    BY <2>1 DEF ChangeSlider, CreateSection, ApprovePublication
  <2>2. CASE \E parts \in SUBSET ({"info"} \cup Required) : EditCard(parts)
    BY <2>2 DEF EditCard, StoreTypeOK, MarketRow
  <2>3. CASE RefusePublication
    BY <2>3 DEF RefusePublication, StoreTypeOK, MarketRow
  <2>4. ASSUME NEW v \in Revisions, ApproveRevision(v) \/ RejectRevision(v)
        PROVE  UNCHANGED session /\ (market.paid => market'.paid)
    BY <2>4 DEF ApproveRevision, RejectRevision, StoreTypeOK, MarketRow
  <2>. QED BY <2>1, <2>2, <2>3, <2>4
<1>2. history'.forgotten = history.forgotten
  BY DEF CreateSection, ChangeSlider, EditCard, ApprovePublication, Published,
         RefusePublication, ApproveRevision, RejectRevision, StoreTypeOK, History
<1>. QED BY <1>1, <1>2, RowKeepsPaid

(* A store that is not paid has no complete session, so that the one that  *)
(* is begun is the only one.                                               *)
LEMMA SubscriptionKeepsPaid ==
  ASSUME StoreTypeOK, OneSession, NEW p \in Sessions,
         Pay(p) \/ SessionOpens(p) \/ SessionEnds(p) \/ Verify(p)
  PROVE  OneSession'
<1>1. history' = history
  BY DEF Pay, SessionOpens, SessionEnds, Verify
<1>2. CASE Pay(p)
  <2>1. ASSUME ~history.forgotten PROVE \A q \in Sessions : session[q] = "none"
    BY <1>2, <2>1 DEF Pay, Payable, OneSession, StoreTypeOK, SessionState
  <2>2. /\ market' = market /\ session'[p] = "creating"
        /\ \A q \in Sessions \ {p} : session'[q] = session[q]
    BY <1>2 DEF Pay, StoreTypeOK
  <2>. QED BY <1>1, <2>1, <2>2 DEF OneSession
<1>3. CASE SessionOpens(p) \/ SessionEnds(p)
  <2>1. /\ market' = market /\ session[p] # "none"
        /\ session'[p] \in {"none", "pending"}
        /\ \A q \in Sessions \ {p} : session'[q] = session[q]
    BY <1>3 DEF SessionOpens, SessionEnds, StoreTypeOK
  <2>. QED BY <1>1, <2>1 DEF OneSession
<1>4. CASE Verify(p)
  <2>1. /\ market'.paid /\ session[p] # "none"
        /\ \A q \in Sessions \ {p} : session'[q] = session[q]
    BY <1>4 DEF Verify, StoreTypeOK, MarketRow
  <2>. QED BY <1>1, <2>1 DEF OneSession
<1>. QED BY <1>2, <1>3, <1>4

LEMMA OneSessionIsOne ==
  ASSUME OneSession PROVE StoreChargedOnce
<1> SUFFICES ASSUME ~history.forgotten PROVE Cardinality(Charged) <= 1
  BY DEF StoreChargedOnce
<1>1. CASE Charged = {}
  BY <1>1, FS_EmptySet
<1>2. ASSUME NEW p \in Charged PROVE Cardinality(Charged) <= 1
  <2>1. Charged = {p}
    BY DEF OneSession, Charged
  <2>2. Cardinality({p}) = 1
    BY FS_Singleton
  <2>. QED BY <2>1, <2>2
<1>. QED BY <1>1, <1>2

(* However the sessions open, fail and complete, and whatever is edited and *)
(* decided meanwhile: the store is charged once, unless a form wrote an old *)
(* is_paid back.                                                            *)
THEOREM ChargedOnceAlways == StoreSpec => []StoreChargedOnce
<1>1. StoreInit => OneSession
  BY DEF StoreInit, OneSession
<1>2. StoreTypeOK /\ OneSession /\ [StoreNext]_storeVars => OneSession'
  <2> SUFFICES ASSUME StoreTypeOK, OneSession, [StoreNext]_storeVars PROVE OneSession'
    OBVIOUS
  <2>1. CASE UNCHANGED storeVars
    BY <2>1 DEF storeVars, OneSession
  <2>2. CASE StoreNext
    BY <2>2, FormsKeepPaid, StaffKeepPaid, SubscriptionKeepsPaid DEF StoreNext
  <2>. QED BY <2>1, <2>2
<1>. QED BY <1>1, <1>2, StoreTypes, OneSessionIsOne, PTL DEF StoreSpec

(***************************************************************************)
(* SignIn                                                                  *)
(***************************************************************************)

(* Past the marker: the request has consumed the code that it read.        *)
Past(r) == verify[r].at \in {"clear", "token"}

(* A request that may go on has read a code; one request at most has       *)
(* consumed it, and it has not signed in with it yet.                      *)
ReadsCode == \A r \in Verifiers :
  verify[r].at \in {"consume", "clear", "token"} => verify[r].code \in Codes

OneConsumer == \A r, q \in Verifiers :
  Past(r) /\ Past(q) /\ verify[r].code = verify[q].code => r = q

NotSignedYet == \A r \in Verifiers : Past(r) =>
  verify[r].code \in consumed /\ signed[verify[r].code] = 0

SignedIsConsumed == \A c \in Codes : signed[c] > 0 => c \in consumed

SignInv ==
  /\ SignInTypeOK /\ ReadsCode /\ OneConsumer /\ NotSignedYet /\ SignedIsConsumed
  /\ OneSignInPerCode

----------------------------------------------------------------------------
(* The keys, the account and the guesses keep their types. *)

KeysOK ==
  /\ otp \in Otp /\ issue \in [Codes -> IssueState] /\ guesses \in Guesses
  /\ account \in BOOLEAN /\ token \in BOOLEAN

LEMMA AbsentKept ==
  /\ MaxAttempts \in Nat /\ Absent \in 0..Absent /\ 0 \in 0..Absent /\ 1 \in 0..Absent
  /\ \A n \in 0..Absent : n < MaxAttempts => n + 1 \in 0..Absent
BY SignInAssumption DEF Absent

LEMMA KeyMoves ==
  ASSUME NEW o \in Otp
  PROVE  /\ \A c \in Codes \cup {NoCode} : [o EXCEPT !.code = c] \in Otp
         /\ \A n \in 0..Absent : [o EXCEPT !.attempts = n] \in Otp
         /\ \A b \in BOOLEAN : [o EXCEPT !.issuing = b] \in Otp
         /\ \A c \in Codes \cup {NoCode}, n \in 0..Absent :
              [o EXCEPT !.code = c, !.attempts = n] \in Otp
         /\ \A c \in Codes, b \in BOOLEAN :
              [o EXCEPT !.code = c, !.issuing = b] \in Otp
BY DEF Otp

LEMMA NoGuessesType == NoGuesses \in Guesses
BY DEF NoGuesses, Guesses

LEMMA IssuesKeepKeys ==
  ASSUME SignInTypeOK, NEW c \in Codes, Issues(c)
  PROVE  KeysOK'
<1>. USE DEF SignInTypeOK, KeysOK
<1>1. ASSUME NEW s \in IssueState, Goes(c, s) PROVE issue' \in [Codes -> IssueState]
  BY <1>1 DEF Goes
<1>2. DeleteCode => otp' \in Otp /\ guesses' \in Guesses
  BY KeyMoves, NoGuessesType DEF DeleteCode
<1>3. CASE SetCode(c)
  <2>1. otp' \in Otp
    BY <1>3, KeyMoves DEF SetCode
  <2>. QED BY <1>1, <1>3, <2>1, NoGuessesType DEF SetCode, IssueState
<1>4. CASE ResetAttempts(c)
  <2>1. otp' \in Otp
    BY <1>4, KeyMoves, AbsentKept DEF ResetAttempts
  <2>. QED BY <1>1, <1>4, <2>1 DEF ResetAttempts, IssueState
<1>5. CASE CheckCode(c)
  BY <1>1, <1>2, <1>5 DEF CheckCode, IssueState
<1>6. CASE CodeSent(c)
  BY <1>1, <1>6 DEF CodeSent, IssueState
<1>7. CASE CodeNotSent(c)
  BY <1>1, <1>2, <1>7 DEF CodeNotSent, IssueState
<1>. QED BY <1>3, <1>4, <1>5, <1>6, <1>7 DEF Issues

LEMMA RefusedKeeps ==
  ASSUME SignInTypeOK, NEW r \in Verifiers, Refused(r)
  PROVE  guesses' \in Guesses
BY DEF SignInTypeOK, Refused, Guesses

LEMMA VerifiesKeepsKeys ==
  ASSUME SignInTypeOK, NEW r \in Verifiers, Verifies(r)
  PROVE  KeysOK'
<1>. USE DEF SignInTypeOK, KeysOK
<1>1. CASE ReadCode(r) \/ Consume(r)
  BY <1>1 DEF ReadCode, Consume
<1>2. CASE AddAttempts(r)
  <2>1. otp.attempts \in 0..Absent
    BY DEF Otp
  <2>2. otp' \in Otp
    BY <1>2, <2>1, KeyMoves, AbsentKept DEF AddAttempts
  <2>. QED BY <1>2, <2>2 DEF AddAttempts
<1>3. CASE CountAttempt(r)
  <2>1. otp.attempts \in 0..Absent
    BY DEF Otp
  <2>2. (IF otp.attempts < MaxAttempts THEN otp.attempts + 1 ELSE otp.attempts)
          \in 0..Absent
    BY <2>1, AbsentKept
  <2>3. otp' \in Otp
    BY <1>3, <2>2, KeyMoves DEF CountAttempt
  <2>. QED BY <1>3, <2>3, RefusedKeeps DEF CountAttempt
<1>4. CASE SetOneAttempt(r)
  <2>1. otp' \in Otp
    BY <1>4, KeyMoves, AbsentKept DEF SetOneAttempt
  <2>2. guesses' \in Guesses
    BY <1>4 DEF SetOneAttempt, Guesses
  <2>. QED BY <1>4, <2>1, <2>2 DEF SetOneAttempt
<1>5. CASE KillCode(r)
  BY <1>5, KeyMoves, NoGuessesType DEF KillCode, DeleteCode
<1>6. CASE ClearKeys(r)
  BY <1>6, KeyMoves, AbsentKept, NoGuessesType DEF ClearKeys
<1>7. CASE MakeToken(r)
  BY <1>7 DEF MakeToken
<1>. QED BY <1>1, <1>2, <1>3, <1>4, <1>5, <1>6, <1>7 DEF Verifies

LEMMA TimeKeepsKeys ==
  ASSUME SignInTypeOK, Logout \/ LockExpires \/ CodeExpires \/ AttemptsExpire
  PROVE  KeysOK'
<1>. USE DEF SignInTypeOK, KeysOK
<1>1. CASE Logout \/ LockExpires
  BY <1>1, KeyMoves DEF Logout, LockExpires
<1>2. CASE CodeExpires
  BY <1>2, KeyMoves, NoGuessesType DEF CodeExpires, DeleteCode
<1>3. CASE AttemptsExpire
  BY <1>3, KeyMoves, AbsentKept DEF AttemptsExpire
<1>. QED BY <1>1, <1>2, <1>3

----------------------------------------------------------------------------
(* Who consumes a code, and who signs in with it *)

LEMMA VerifyMoves ==
  ASSUME SignInTypeOK, NEW r \in Verifiers, Verifies(r)
  PROVE  /\ verify' \in [Verifiers -> VerifyState]
         /\ \A q \in Verifiers \ {r} : verify'[q] = verify[q]
<1>. USE DEF SignInTypeOK
<1>1. Waiting \in VerifyState
  BY DEF Waiting, VerifyState
<1>2. ASSUME NEW at \in {"none", "add", "incr", "one", "kill", "consume", "clear", "token"},
             Moves(r, at)
      PROVE  /\ verify' \in [Verifiers -> VerifyState]
             /\ \A q \in Verifiers \ {r} : verify'[q] = verify[q]
  <2>1. [verify[r] EXCEPT !.at = at] \in VerifyState
    BY DEF VerifyState
  <2>. QED BY <1>2, <2>1 DEF Moves
<1>3. ASSUME verify' = [verify EXCEPT ![r] = Waiting]
      PROVE  /\ verify' \in [Verifiers -> VerifyState]
             /\ \A q \in Verifiers \ {r} : verify'[q] = verify[q]
  BY <1>1, <1>3
<1>4. CASE ReadCode(r)
  <2>1. PICK k \in VerifyState : verify' = [verify EXCEPT ![r] = k]
    BY <1>4 DEF ReadCode, VerifyState, Otp
  <2>. QED BY <2>1
<1>5. CASE AddAttempts(r) \/ ClearKeys(r)
  BY <1>2, <1>5 DEF AddAttempts, ClearKeys
<1>6. CASE CountAttempt(r)
  BY <1>2, <1>3, <1>6 DEF CountAttempt, Refused
<1>7. CASE SetOneAttempt(r) \/ KillCode(r) \/ MakeToken(r)
  BY <1>3, <1>7 DEF SetOneAttempt, KillCode, MakeToken
<1>8. CASE Consume(r)
  BY <1>2, <1>3, <1>8 DEF Consume
<1>. QED BY <1>4, <1>5, <1>6, <1>7, <1>8 DEF Verifies

(* A request that is not past the marker after its step, and has signed in *)
(* with nothing. *)
LEMMA OthersKeep ==
  ASSUME SignInv, NEW r \in Verifiers, Verifies(r),
         UNCHANGED <<consumed, signed>>,
         ~Past(r)', verify'[r].at = "consume" => verify'[r].code \in Codes
  PROVE  ReadsCode' /\ OneConsumer' /\ NotSignedYet' /\ SignedIsConsumed'
         /\ OneSignInPerCode'
<1>1. \A q \in Verifiers \ {r} : verify'[q] = verify[q] /\ Past(q)' = Past(q)
  BY VerifyMoves DEF SignInv, Past
<1>2. ReadsCode'
  BY <1>1 DEF SignInv, ReadsCode, Past
<1>3. OneConsumer'
  BY <1>1 DEF SignInv, OneConsumer
<1>4. NotSignedYet'
  BY <1>1 DEF SignInv, NotSignedYet
<1>. QED BY <1>2, <1>3, <1>4 DEF SignInv, SignedIsConsumed, OneSignInPerCode

(* The marker makes the request that adds it the only one. *)
LEMMA ConsumeKeeps ==
  ASSUME SignInv, NEW r \in Verifiers, Consume(r), verify[r].code \notin consumed
  PROVE  ReadsCode' /\ OneConsumer' /\ NotSignedYet' /\ SignedIsConsumed'
         /\ OneSignInPerCode'
<1>. DEFINE c == verify[r].code
<1>1. c \in Codes /\ consumed' = consumed \cup {c} /\ UNCHANGED signed
  BY DEF SignInv, ReadsCode, Consume
<1>2. signed[c] = 0
  BY <1>1 DEF SignInv, SignInTypeOK, SignedIsConsumed, Consume
<1>3. /\ verify'[r].code = c /\ verify'[r].at = "clear"
      /\ \A q \in Verifiers \ {r} : verify'[q] = verify[q]
  BY DEF SignInv, SignInTypeOK, Consume, Moves, VerifyState
<1>4. \A q \in Verifiers \ {r} : Past(q)' = Past(q) /\ (Past(q) => verify[q].code # c)
  BY <1>3 DEF SignInv, NotSignedYet, Past
<1>5. ReadsCode'
  BY <1>1, <1>3 DEF SignInv, ReadsCode
<1>6. OneConsumer'
  BY <1>3, <1>4 DEF SignInv, OneConsumer
<1>7. NotSignedYet'
  BY <1>1, <1>2, <1>3, <1>4 DEF SignInv, NotSignedYet
<1>. QED BY <1>1, <1>5, <1>6, <1>7 DEF SignInv, SignedIsConsumed, OneSignInPerCode

LEMMA ClearKeeps ==
  ASSUME SignInv, NEW r \in Verifiers, ClearKeys(r)
  PROVE  ReadsCode' /\ OneConsumer' /\ NotSignedYet' /\ SignedIsConsumed'
         /\ OneSignInPerCode'
<1>1. /\ verify'[r].code = verify[r].code
      /\ Past(r) /\ Past(r)'
      /\ \A q \in Verifiers \ {r} : verify'[q] = verify[q]
      /\ UNCHANGED <<consumed, signed>>
  BY DEF SignInv, SignInTypeOK, ClearKeys, Moves, VerifyState, Past
<1>2. \A q \in Verifiers : Past(q)' = Past(q) /\ verify'[q].code = verify[q].code
  BY <1>1 DEF Past
<1>3. ReadsCode'
  BY <1>1, <1>2 DEF SignInv, ReadsCode, Past
<1>4. OneConsumer' /\ NotSignedYet'
  BY <1>1, <1>2 DEF SignInv, OneConsumer, NotSignedYet
<1>. QED BY <1>1, <1>3, <1>4 DEF SignInv, SignedIsConsumed, OneSignInPerCode

LEMMA TokenKeeps ==
  ASSUME SignInv, NEW r \in Verifiers, MakeToken(r)
  PROVE  signed' \in [Codes -> Nat] /\ ReadsCode' /\ OneConsumer' /\ NotSignedYet'
         /\ SignedIsConsumed' /\ OneSignInPerCode'
<1>. DEFINE c == verify[r].code
<1>1. /\ c \in Codes /\ c \in consumed /\ signed[c] = 0 /\ Past(r)
      /\ consumed' = consumed
  BY DEF SignInv, ReadsCode, NotSignedYet, MakeToken, Past
<1>2. /\ ~Past(r)' /\ verify'[r].at = "none"
      /\ \A q \in Verifiers \ {r} : verify'[q] = verify[q] /\ Past(q)' = Past(q)
  BY DEF SignInv, SignInTypeOK, MakeToken, Past, Waiting
<1>3. /\ signed' \in [Codes -> Nat]
      /\ signed'[c] \in {0, 1}
      /\ \A d \in Codes \ {c} : signed'[d] = signed[d]
  BY <1>1 DEF SignInv, SignInTypeOK, MakeToken
<1>4. \A q \in Verifiers \ {r} : Past(q) => verify[q].code \in Codes \ {c}
  BY <1>1 DEF SignInv, OneConsumer, ReadsCode, Past
<1>5. ReadsCode' /\ OneConsumer'
  BY <1>2 DEF SignInv, ReadsCode, OneConsumer
<1>6. NotSignedYet'
  BY <1>1, <1>2, <1>3, <1>4 DEF SignInv, NotSignedYet
<1>7. SignedIsConsumed' /\ OneSignInPerCode'
  BY <1>1, <1>3 DEF SignInv, SignedIsConsumed, OneSignInPerCode
<1>. QED BY <1>3, <1>5, <1>6, <1>7

----------------------------------------------------------------------------
LEMMA VerifiesKeeps ==
  ASSUME SignInv, NEW r \in Verifiers, Verifies(r)
  PROVE  SignInv'
<1>1. /\ KeysOK' /\ verify' \in [Verifiers -> VerifyState]
  BY VerifiesKeepsKeys, VerifyMoves DEF SignInv
<1>2. ASSUME signed' \in [Codes -> Nat], consumed' \in SUBSET Codes
      PROVE  SignInTypeOK'
  BY <1>1, <1>2 DEF SignInTypeOK, KeysOK
<1>3. signed \in [Codes -> Nat] /\ consumed \in SUBSET Codes
  BY DEF SignInv, SignInTypeOK
<1>4. CASE ReadCode(r)
  <2>1. verify'[r].at \in {"add", "consume"}
        /\ (verify'[r].at = "consume" => verify'[r].code \in Codes)
    BY <1>4 DEF SignInv, SignInTypeOK, ReadCode, Otp
  <2>. QED BY <1>2, <1>3, <1>4, <2>1, OthersKeep DEF ReadCode, SignInv, Past
<1>5. CASE AddAttempts(r) \/ CountAttempt(r) \/ SetOneAttempt(r) \/ KillCode(r)
  <2>1. verify'[r].at \in {"none", "incr", "one", "kill"} /\ UNCHANGED <<consumed, signed>>
    BY <1>5 DEF SignInv, SignInTypeOK, AddAttempts, CountAttempt, SetOneAttempt, KillCode,
                Moves, Refused, Waiting, VerifyState
  <2>. QED BY <1>2, <1>3, <2>1, OthersKeep DEF SignInv, Past
<1>6. CASE Consume(r) /\ verify[r].code \in consumed
  <2>1. verify'[r].at = "none" /\ UNCHANGED <<consumed, signed>>
    BY <1>6 DEF SignInv, SignInTypeOK, Consume, Waiting
  <2>. QED BY <1>2, <1>3, <2>1, OthersKeep DEF SignInv, Past
<1>7. CASE Consume(r) /\ verify[r].code \notin consumed
  <2>1. consumed' \in SUBSET Codes /\ UNCHANGED signed
    BY <1>3, <1>7 DEF SignInv, ReadsCode, Consume
  <2>. QED BY <1>2, <1>3, <1>7, <2>1, ConsumeKeeps DEF SignInv
<1>8. CASE ClearKeys(r)
  BY <1>2, <1>3, <1>8, ClearKeeps DEF ClearKeys, SignInv
<1>9. CASE MakeToken(r)
  BY <1>2, <1>3, <1>9, TokenKeeps DEF MakeToken, SignInv
<1>. QED BY <1>4, <1>5, <1>6, <1>7, <1>8, <1>9 DEF Verifies

LEMMA SignInRestKeeps ==
  ASSUME SignInv, KeysOK', UNCHANGED <<consumed, verify, signed>>
  PROVE  SignInv'
BY DEF SignInv, SignInTypeOK, KeysOK, ReadsCode, OneConsumer, NotSignedYet,
       SignedIsConsumed, OneSignInPerCode, Past

LEMMA SignInStarts == SignInInit => SignInv
<1> SUFFICES ASSUME SignInInit PROVE SignInv
  OBVIOUS
<1>1. SignInTypeOK
  BY AbsentKept, NoGuessesType DEF SignInInit, SignInTypeOK, Otp, IssueState, VerifyState,
     Waiting
<1>2. \A r \in Verifiers : verify[r].at = "none"
  BY DEF SignInInit, Waiting
<1>. QED BY <1>1, <1>2 DEF SignInInit, SignInv, ReadsCode, OneConsumer, NotSignedYet,
            SignedIsConsumed, OneSignInPerCode, Past

LEMMA SignInStep == SignInv /\ [SignInNext]_signInVars => SignInv'
<1> SUFFICES ASSUME SignInv, [SignInNext]_signInVars PROVE SignInv'
  OBVIOUS
<1>1. CASE UNCHANGED signInVars
  BY <1>1, SignInRestKeeps DEF signInVars, SignInv, SignInTypeOK, KeysOK
<1>2. ASSUME NEW c \in Codes, Issues(c) PROVE SignInv'
  <2>1. UNCHANGED <<consumed, verify, signed>>
    BY <1>2 DEF Issues, SetCode, ResetAttempts, CheckCode, CodeSent, CodeNotSent
  <2>. QED BY <1>2, <2>1, IssuesKeepKeys, SignInRestKeeps DEF SignInv
<1>3. ASSUME NEW r \in Verifiers, Verifies(r) PROVE SignInv'
  BY <1>3, VerifiesKeeps
<1>4. CASE Logout \/ LockExpires \/ CodeExpires \/ AttemptsExpire
  <2>1. UNCHANGED <<consumed, verify, signed>>
    BY <1>4 DEF Logout, LockExpires, CodeExpires, AttemptsExpire
  <2>. QED BY <1>4, <2>1, TimeKeepsKeys, SignInRestKeeps DEF SignInv
<1>. QED BY <1>1, <1>2, <1>3, <1>4 DEF SignInNext

(* The keys of the cache, the requests and the counts keep their types: in *)
(* particular the attempts stay below the limit.                           *)
THEOREM SignInTypes == SignInSpec => []SignInTypeOK
<1>1. SignInv => SignInTypeOK
  BY DEF SignInv
<1>. QED BY <1>1, SignInStarts, SignInStep, PTL DEF SignInSpec

(* However many requests read a code before the first one deletes it, and  *)
(* whatever is issued, expires or is deleted meanwhile, the code signs its *)
(* user in once.                                                           *)
THEOREM OneSignInAlways == SignInSpec => []OneSignInPerCode
<1>1. SignInv => OneSignInPerCode
  BY DEF SignInv
<1>. QED BY <1>1, SignInStarts, SignInStep, PTL DEF SignInSpec

----------------------------------------------------------------------------
(* The guesses at a code.  A code that is being set has not been guessed   *)
(* at: the answers counted are those that read it after its attempts were  *)
(* reset, so that whoever deletes the attempts deletes none of them.       *)

NewCodeCurrent ==
  /\ \A c \in Codes :
       issue[c] = "reset" => otp.issuing /\ (otp.code = c \/ otp.code = NoCode)
  /\ otp.code \in Codes => issue[otp.code] # "none"

LateReads ==
  \A r \in Verifiers : verify[r].late =>
    /\ verify[r].code \in Codes
    /\ issue[verify[r].code] # "none" /\ issue[verify[r].code] # "reset"

Unguessed ==
  otp.code = NoCode \/ (otp.code \in Codes /\ issue[otp.code] = "reset") =>
    guesses.wrong = 0

WrongAreCounted ==
  \/ guesses.overwritten
  \/ /\ guesses.wrong < MaxAttempts
     /\ guesses.wrong = 0 \/ (otp.attempts # Absent /\ guesses.wrong <= otp.attempts)

GuessInv == NewCodeCurrent /\ LateReads /\ Unguessed /\ WrongAreCounted

LEMMA KeyTypes ==
  ASSUME SignInTypeOK
  PROVE  /\ otp.code \in Codes \cup {NoCode} /\ otp.attempts \in Nat
         /\ guesses.wrong \in Nat /\ issue \in [Codes -> IssueState]
         /\ verify \in [Verifiers -> VerifyState] /\ otp \in Otp /\ guesses \in Guesses
         /\ MaxAttempts \in Nat /\ MaxAttempts > 1 /\ Absent = MaxAttempts + 1
         /\ NoCode \notin Codes
BY SignInAssumption DEF SignInTypeOK, Otp, Guesses, Absent

(* A code is deleted, or another set: nobody has guessed at it.            *)
LEMMA IssueGuesses ==
  ASSUME SignInTypeOK, GuessInv, NEW c \in Codes, Issues(c)
  PROVE  GuessInv'
<1>. USE KeyTypes DEF GuessInv
<1>0. verify' = verify
  BY DEF Issues, SetCode, ResetAttempts, CheckCode, CodeSent, CodeNotSent
<1>1. ASSUME NEW s, Goes(c, s)
      PROVE  issue'[c] = s /\ \A d \in Codes \ {c} : issue'[d] = issue[d]
  BY <1>1 DEF Goes
<1>2. ASSUME DeleteCode
      PROVE  /\ otp'.code = NoCode /\ otp'.issuing = otp.issuing
             /\ guesses'.wrong = 0 /\ ~guesses'.overwritten
  BY <1>2 DEF DeleteCode, Otp, NoGuesses
<1>3. CASE SetCode(c)
  <2>1. /\ issue[c] = "none" /\ ~otp.issuing /\ otp'.code = c /\ otp'.issuing
        /\ guesses'.wrong = 0 /\ ~guesses'.overwritten
        /\ issue'[c] = "reset" /\ \A d \in Codes \ {c} : issue'[d] = issue[d]
    BY <1>1, <1>3 DEF SetCode, Otp, NoGuesses
  <2>2. NewCodeCurrent'
    BY <2>1 DEF NewCodeCurrent
  <2>3. LateReads'
    BY <1>0, <2>1 DEF LateReads
  <2>. QED BY <2>1, <2>2, <2>3 DEF Unguessed, WrongAreCounted
<1>4. CASE ResetAttempts(c)
  <2>1. /\ issue[c] = "reset" /\ otp'.code = otp.code /\ otp'.issuing = otp.issuing
        /\ guesses' = guesses
        /\ issue'[c] = "check" /\ \A d \in Codes \ {c} : issue'[d] = issue[d]
    BY <1>1, <1>4 DEF ResetAttempts, Otp
  <2>2. guesses.wrong = 0
    BY <2>1 DEF NewCodeCurrent, Unguessed
  <2>3. NewCodeCurrent' /\ LateReads'
    BY <1>0, <2>1 DEF NewCodeCurrent, LateReads
  <2>. QED BY <2>1, <2>2, <2>3 DEF Unguessed, WrongAreCounted
<1>5. CASE CheckCode(c) \/ CodeSent(c) \/ CodeNotSent(c)
  <2>1. /\ issue[c] # "reset" /\ issue[c] # "none"
        /\ issue'[c] # "reset" /\ issue'[c] # "none"
        /\ \A d \in Codes \ {c} : issue'[d] = issue[d]
        /\ (otp' = otp /\ guesses' = guesses) \/ DeleteCode
    BY <1>1, <1>5 DEF CheckCode, CodeSent, CodeNotSent
  <2>2. LateReads'
    BY <1>0, <2>1 DEF LateReads
  <2>3. CASE otp' = otp /\ guesses' = guesses
    BY <2>1, <2>2, <2>3 DEF NewCodeCurrent, Unguessed, WrongAreCounted
  <2>4. CASE DeleteCode
    BY <1>2, <2>1, <2>2, <2>4 DEF NewCodeCurrent, Unguessed, WrongAreCounted
  <2>. QED BY <2>1, <2>3, <2>4
<1>. QED BY <1>3, <1>4, <1>5 DEF Issues

(* A request that verifies writes no code but none.                        *)
LEMMA VerifyGuesses ==
  ASSUME SignInTypeOK, GuessInv, NEW r \in Verifiers, Verifies(r)
  PROVE  GuessInv'
<1>. USE KeyTypes DEF GuessInv
<1>0. issue' = issue
  BY DEF Verifies, ReadCode, AddAttempts, CountAttempt, SetOneAttempt, KillCode, Consume,
         ClearKeys, MakeToken
<1>1. LateReads'
  <2>1. \A q \in Verifiers \ {r} : verify'[q] = verify[q]
    BY VerifyMoves
  <2>2. \/ verify'[r].late = verify[r].late /\ verify'[r].code = verify[r].code
        \/ ~verify'[r].late
        \/ ReadCode(r)
    BY DEF Verifies, AddAttempts, CountAttempt, SetOneAttempt, KillCode, Consume,
           ClearKeys, MakeToken, Moves, Refused, Waiting, VerifyState
  <2>3. CASE ReadCode(r)
    <3>1. /\ verify'[r].code = otp.code
          /\ verify'[r].late => otp.code # NoCode /\ issue[otp.code] # "reset"
      <4> DEFINE late == otp.code # NoCode /\ issue[otp.code] # "reset"
      <4>1. PICK right \in BOOLEAN :
              verify' = [verify EXCEPT ![r] =
                [at |-> IF right THEN "consume" ELSE "add", code |-> otp.code,
                 late |-> late]]
        BY <2>3 DEF ReadCode
      <4>2. verify'[r].code = otp.code
        BY <4>1
      <4>. HIDE DEF late
      <4>3. verify'[r].late = late
        BY <4>1
      <4>. QED BY <4>2, <4>3, Zenon DEF late
    <3>. QED BY <1>0, <2>1, <3>1 DEF LateReads, NewCodeCurrent
  <2>. QED BY <1>0, <2>1, <2>2, <2>3 DEF LateReads
<1>2. ASSUME otp'.code = otp.code, otp'.issuing = otp.issuing
      PROVE  NewCodeCurrent'
  BY <1>0, <1>2 DEF NewCodeCurrent
<1>3. ASSUME otp'.code = NoCode, otp'.issuing = otp.issuing,
             guesses'.wrong = 0, ~guesses'.overwritten
      PROVE  GuessInv'
  BY <1>0, <1>1, <1>3 DEF NewCodeCurrent, Unguessed, WrongAreCounted
<1>4. ASSUME otp' = otp, guesses' = guesses
      PROVE  GuessInv'
  BY <1>0, <1>1, <1>2, <1>4 DEF Unguessed, WrongAreCounted
<1>5. CASE ReadCode(r) \/ Consume(r) \/ MakeToken(r)
  BY <1>4, <1>5 DEF ReadCode, Consume, MakeToken
<1>6. CASE KillCode(r) \/ ClearKeys(r)
  <2>1. /\ otp'.code = NoCode /\ otp'.issuing = otp.issuing
        /\ guesses'.wrong = 0 /\ ~guesses'.overwritten
    <3>1. otp \in Otp
      BY KeyTypes
    <3>2. CASE KillCode(r)
      BY <3>1, <3>2 DEF KillCode, DeleteCode, NoGuesses, Otp
    <3>3. CASE ClearKeys(r)
      BY <3>1, <3>3 DEF ClearKeys, NoGuesses, Otp
    <3>. QED BY <1>6, <3>2, <3>3
  <2>. QED BY <1>3, <2>1
<1>7. CASE AddAttempts(r)
  <2>1. /\ otp'.code = otp.code /\ otp'.issuing = otp.issuing /\ guesses' = guesses
        /\ otp'.attempts = IF otp.attempts = Absent THEN 0 ELSE otp.attempts
    BY <1>7 DEF AddAttempts, Otp
  <2>. QED BY <1>0, <1>1, <1>2, <2>1 DEF Unguessed, WrongAreCounted
<1>8. ASSUME verify[r].late /\ verify[r].code = otp.code
      PROVE  otp.code \in Codes /\ issue[otp.code] # "reset"
  BY <1>8 DEF LateReads
<1>9. CASE CountAttempt(r)
  <2>1. CASE otp.attempts = Absent
    BY <1>4, <1>9, <2>1 DEF CountAttempt
  <2>2. CASE otp.attempts # Absent
    <3>1. /\ otp'.code = otp.code /\ otp'.issuing = otp.issuing
          /\ otp'.attempts = IF otp.attempts < MaxAttempts THEN otp.attempts + 1
                             ELSE otp.attempts
      BY <1>9, <2>2 DEF CountAttempt, Otp
    <3>2. \/ guesses' = guesses
          \/ /\ otp.attempts + 1 < MaxAttempts
             /\ verify[r].late /\ verify[r].code = otp.code
             /\ guesses' = [guesses EXCEPT !.wrong = @ + 1]
      BY <1>9, <2>2 DEF CountAttempt, Refused
    <3>3. otp'.attempts # Absent /\ otp'.attempts >= otp.attempts
      BY <2>2, <3>1
    <3>4. CASE guesses' = guesses
      BY <1>0, <1>1, <1>2, <2>2, <3>1, <3>3, <3>4 DEF Unguessed, WrongAreCounted
    <3>5. CASE /\ otp.attempts + 1 < MaxAttempts
               /\ verify[r].late /\ verify[r].code = otp.code
               /\ guesses' = [guesses EXCEPT !.wrong = @ + 1]
      <4>1. guesses'.wrong = guesses.wrong + 1 /\ guesses'.overwritten = guesses.overwritten
        BY <3>5 DEF Guesses
      <4>2. Unguessed'
        BY <1>0, <1>8, <3>1, <3>5 DEF Unguessed
      <4>3. WrongAreCounted'
        BY <2>2, <3>1, <3>5, <4>1 DEF WrongAreCounted
      <4>. QED BY <1>1, <1>2, <3>1, <4>2, <4>3
    <3>. QED BY <3>2, <3>4, <3>5
  <2>. QED BY <2>1, <2>2
<1>10. CASE SetOneAttempt(r)
  <2> DEFINE counts == verify[r].late /\ verify[r].code = otp.code
  <2>1. /\ otp'.code = otp.code /\ otp'.issuing = otp.issuing /\ otp'.attempts = 1
        /\ guesses'.wrong = IF counts THEN guesses.wrong + 1 ELSE guesses.wrong
        /\ guesses'.overwritten = (guesses.overwritten \/ otp.attempts # Absent)
    BY <1>10 DEF SetOneAttempt, Otp
  <2>2. Unguessed'
    BY <1>0, <1>8, <2>1 DEF Unguessed
  <2>3. WrongAreCounted'
    <3>1. CASE guesses.overwritten \/ otp.attempts # Absent
      BY <2>1, <3>1 DEF WrongAreCounted
    <3>2. CASE ~(guesses.overwritten \/ otp.attempts # Absent)
      <4>1. guesses.wrong = 0
        BY <3>2 DEF WrongAreCounted
      <4>. QED BY <2>1, <4>1 DEF WrongAreCounted
    <3>. QED BY <3>1, <3>2
  <2>. QED BY <1>1, <1>2, <2>1, <2>2, <2>3
<1>. QED BY <1>5, <1>6, <1>7, <1>9, <1>10 DEF Verifies

LEMMA TimeGuesses ==
  ASSUME SignInTypeOK, GuessInv, Logout \/ LockExpires \/ CodeExpires \/ AttemptsExpire
  PROVE  GuessInv'
<1>. USE KeyTypes DEF GuessInv
<1>1. CASE Logout
  BY <1>1 DEF Logout, NewCodeCurrent, LateReads, Unguessed, WrongAreCounted
<1>2. CASE LockExpires
  <2>1. /\ otp'.code = otp.code /\ otp'.attempts = otp.attempts
        /\ \A c \in Codes : issue[c] # "reset"
        /\ guesses' = guesses /\ issue' = issue /\ verify' = verify
    BY <1>2 DEF LockExpires, Otp
  <2>. QED BY <2>1 DEF NewCodeCurrent, LateReads, Unguessed, WrongAreCounted
<1>3. CASE CodeExpires
  <2>1. /\ otp'.code = NoCode /\ otp'.issuing = otp.issuing
        /\ guesses'.wrong = 0 /\ ~guesses'.overwritten
        /\ issue' = issue /\ verify' = verify
    BY <1>3 DEF CodeExpires, DeleteCode, NoGuesses, Otp
  <2>. QED BY <2>1 DEF NewCodeCurrent, LateReads, Unguessed, WrongAreCounted
<1>4. CASE AttemptsExpire
  <2>1. /\ otp'.code = otp.code /\ otp'.issuing = otp.issuing
        /\ otp.code # NoCode => issue[otp.code] = "reset"
        /\ guesses' = guesses /\ issue' = issue /\ verify' = verify
    BY <1>4 DEF AttemptsExpire, Otp
  <2>2. guesses.wrong = 0
    BY <2>1 DEF Unguessed
  <2>. QED BY <2>1, <2>2 DEF NewCodeCurrent, LateReads, Unguessed, WrongAreCounted
<1>. QED BY <1>1, <1>2, <1>3, <1>4

(* A code is answered wrongly less often than MaxAttempts, for any number  *)
(* of requests and codes, unless an answer that began before the code was  *)
(* set puts its count back to one (verify_otp, _register_attempt).         *)
THEOREM GuessesAlwaysBounded == SignInSpec => []GuessesBounded
<1>1. SignInInit => GuessInv
  <2> SUFFICES ASSUME SignInInit PROVE GuessInv
    OBVIOUS
  <2>1. /\ \A c \in Codes : issue[c] = "none"
        /\ \A r \in Verifiers : ~verify[r].late
        /\ otp.code = NoCode /\ NoCode \notin Codes
        /\ guesses.wrong = 0 /\ MaxAttempts > 0
    BY SignInAssumption DEF SignInInit, Waiting, NoGuesses
  <2>. QED BY <2>1 DEF GuessInv, NewCodeCurrent, LateReads, Unguessed, WrongAreCounted
<1>2. SignInv /\ GuessInv /\ [SignInNext]_signInVars => GuessInv'
  <2> SUFFICES ASSUME SignInv, GuessInv, [SignInNext]_signInVars PROVE GuessInv'
    OBVIOUS
  <2>1. CASE UNCHANGED signInVars
    BY <2>1 DEF signInVars, GuessInv, NewCodeCurrent, LateReads, Unguessed, WrongAreCounted
  <2>. QED BY <2>1, IssueGuesses, VerifyGuesses, TimeGuesses DEF SignInv, SignInNext
<1>3. GuessInv => GuessesBounded
  BY DEF GuessInv, WrongAreCounted, GuessesBounded
<1>. QED BY <1>1, <1>2, <1>3, SignInStarts, SignInStep, PTL DEF SignInSpec

(***************************************************************************)
(* Referrals                                                               *)
(***************************************************************************)

(* ReferralsTypeOK without the commissions, which nothing here depends on.  *)
ReferralRows ==
  /\ joined \in [People -> Nat]
  /\ latest \in Nat
  /\ invited \in [People -> Links \cup {NoLink}]
  /\ intent \in [People -> Links \cup {NoLink}]
  /\ referral \in [People -> People \cup {Nobody}]
  /\ link \in [Links -> LinkRow]
  /\ store \in [People -> StoreState]

(* Users joined one after the other, up to the newest.                     *)
Joined == \A u \in People : joined[u] <= latest

(* Only users make links. *)
LinksOfUsers == \A l \in Links : link[l].by # Nobody => joined[link[l].by] > 0

(* Who made the link of an intent was a user before the one who has it.    *)
IntentsOfOlder ==
  \A u \in People : intent[u] \in Links =>
    LET maker == link[intent[u]].by
    IN maker \in People /\ joined[maker] > 0 /\ joined[maker] < joined[u]

(* A link that is valid has a maker. *)
LiveLinks == \A l \in Links : link[l].live => link[l].by \in People

ReferralsInv ==
  /\ ReferralRows /\ Joined /\ LinksOfUsers /\ IntentsOfOlder /\ LiveLinks
  /\ ReferrersCameFirst

----------------------------------------------------------------------------
LEMMA ReferralsStart == ReferralsInit => ReferralsInv
<1> SUFFICES ASSUME ReferralsInit PROVE ReferralsInv
  OBVIOUS
<1>1. NoRow \in LinkRow
  BY DEF NoRow, LinkRow
<1>2. ReferralRows
  BY <1>1 DEF ReferralsInit, ReferralRows, StoreState
<1>3. /\ \A u \in People : joined[u] \in {0, 1} /\ intent[u] \notin Links
      /\ \A u \in People : referral[u] = Nobody
      /\ \A l \in Links : link[l].by = Nobody /\ ~link[l].live
      /\ latest = 1
  BY ReferralsAssumption DEF ReferralsInit, NoRow
<1>. QED BY <1>2, <1>3 DEF ReferralsInv, Joined, LinksOfUsers, IntentsOfOlder,
            ReferrersCameFirst, LiveLinks

(* A number becomes a user after everyone else, the maker of its           *)
(* invitation included.                                                    *)
LEMMA RequestKeeps ==
  ASSUME ReferralsInv, NEW u \in People, NEW l \in Links \cup {NoLink}, RequestCode(u, l)
  PROVE  ReferralsInv'
<1>. USE DEF ReferralsInv
<1>1. UNCHANGED <<referral, link, store, commissions>>
  BY DEF RequestCode
<1>2. CASE IsUser(u)
  <2>1. UNCHANGED <<joined, latest, intent>>
    BY <1>2 DEF RequestCode
  <2>2. ReferralRows'
    BY <1>1, <2>1 DEF ReferralRows, RequestCode
  <2>. QED BY <1>1, <2>1, <2>2 DEF Joined, LinksOfUsers, IntentsOfOlder,
              ReferrersCameFirst, LiveLinks
<1>3. CASE ~IsUser(u)
  <2>1. /\ latest' = latest + 1
        /\ joined' = [joined EXCEPT ![u] = latest + 1]
        /\ intent' = [intent EXCEPT ![u] = l]
        /\ joined[u] = 0 /\ latest \in Nat
    BY <1>3 DEF RequestCode, IsUser, ReferralRows
  <2>2. ReferralRows'
    BY <1>1, <2>1 DEF ReferralRows, RequestCode
  <2>3. /\ joined'[u] = latest + 1
        /\ \A v \in People \ {u} : joined'[v] = joined[v]
        /\ \A v \in People : joined[v] \in Nat
    BY <2>1 DEF ReferralRows
  <2>4. Joined'
    BY <2>1, <2>3 DEF Joined
  <2>5. LinksOfUsers' /\ LiveLinks'
    BY <1>1, <2>1, <2>3 DEF LinksOfUsers, LiveLinks, ReferralRows, LinkRow
  <2>6. l \in Links => /\ link[l].by \in People \ {u}
                       /\ joined[link[l].by] > 0 /\ joined[link[l].by] <= latest
    <3>1. ASSUME l \in Links PROVE link[l].by \in People
      BY <3>1 DEF RequestCode, Valid, LiveLinks
    <3>2. ASSUME l \in Links PROVE joined[link[l].by] > 0
      BY <3>1, <3>2, ReferralsAssumption DEF LinksOfUsers
    <3>. QED BY <2>1, <3>1, <3>2 DEF Joined
  <2>7. NoLink \notin Links
    BY ReferralsAssumption
  <2>8. IntentsOfOlder'
    <3>1. ASSUME NEW v \in People \ {u}, intent[v] \in Links
          PROVE  LET maker == link[intent[v]].by
                 IN maker \in People /\ joined'[maker] > 0 /\ joined'[maker] < joined'[v]
      BY <2>1, <2>3, <3>1 DEF IntentsOfOlder
    <3>2. \A v \in People \ {u} : intent'[v] = intent[v]
      BY <2>1 DEF ReferralRows
    <3>3. intent'[u] = l
      BY <2>1 DEF ReferralRows
    <3>. QED BY <1>1, <2>1, <2>3, <2>6, <2>7, <3>1, <3>2, <3>3 DEF IntentsOfOlder
  <2>9. ReferrersCameFirst'
    BY <1>1, <2>1, <2>3 DEF ReferrersCameFirst, ReferralRows
  <2>. QED BY <2>2, <2>4, <2>5, <2>8, <2>9
<1>. QED BY <1>2, <1>3

(* A referral is made from an intent only. *)
LEMMA SignInKeeps ==
  ASSUME ReferralsInv, NEW u \in People, SignsIn(u)
  PROVE  ReferralsInv'
<1>. USE DEF ReferralsInv
<1>. DEFINE l == invited[u]
<1>1. UNCHANGED <<joined, latest, link, store, commissions>>
  BY DEF SignsIn
<1>2. \A v \in People : intent'[v] \in {intent[v], NoLink}
  BY DEF SignsIn, ReferralRows
<1>3. /\ referral' = referral
      \/ /\ l \in Links /\ intent[u] = l
         /\ referral' = [referral EXCEPT ![u] = link[l].by]
  BY DEF SignsIn, Referred
<1>4. CASE referral' = referral
  <2>1. ReferralRows'
    BY <1>1, <1>4 DEF SignsIn, ReferralRows
  <2>. QED BY <1>1, <1>2, <1>4, <2>1, ReferralsAssumption DEF Joined, LinksOfUsers,
              IntentsOfOlder, ReferrersCameFirst, LiveLinks
<1>5. CASE /\ l \in Links /\ intent[u] = l
           /\ referral' = [referral EXCEPT ![u] = link[l].by]
  <2>1. link[l].by \in People /\ joined[link[l].by] > 0 /\ joined[link[l].by] < joined[u]
    BY <1>5 DEF IntentsOfOlder
  <2>2. /\ referral'[u] = link[l].by
        /\ \A v \in People \ {u} : referral'[v] = referral[v]
        /\ referral' \in [People -> People \cup {Nobody}]
    BY <1>5, <2>1 DEF ReferralRows
  <2>3. ReferralRows'
    BY <1>1, <2>2 DEF SignsIn, ReferralRows
  <2>4. ReferrersCameFirst'
    BY <1>1, <2>1, <2>2 DEF ReferrersCameFirst
  <2>. QED BY <1>1, <1>2, <2>3, <2>4, ReferralsAssumption DEF Joined, LinksOfUsers,
              IntentsOfOlder, LiveLinks
<1>. QED BY <1>3, <1>4, <1>5

(* A link that is made anew is nobody's intent: it had no row.             *)
LEMMA LinkKeeps ==
  ASSUME ReferralsInv, NEW u \in People, NEW owner \in People, MakesLink(u, owner)
  PROVE  ReferralsInv'
<1>. USE DEF ReferralsInv
<1>1. NewLink \in Links /\ link[NewLink] = NoRow
  BY DEF MakesLink, NewLink
<1>2. /\ UNCHANGED <<joined, latest, invited, intent, referral, store, commissions>>
      /\ link'[NewLink] = [by |-> u, of |-> owner, live |-> TRUE]
      /\ \A l \in Links \ {NewLink} : link'[l] = link[l]
      /\ link' \in [Links -> LinkRow]
      /\ joined[u] > 0
  BY <1>1 DEF MakesLink, IsUser, ReferralRows, LinkRow
<1>3. ReferralRows'
  BY <1>2 DEF ReferralRows
<1>4. LinksOfUsers' /\ LiveLinks'
  BY <1>2 DEF LinksOfUsers, LiveLinks
<1>5. \A v \in People : intent[v] # NewLink \/ intent[v] \notin Links
  BY <1>1, ReferralsAssumption DEF IntentsOfOlder, NoRow
<1>6. IntentsOfOlder'
  BY <1>2, <1>5 DEF IntentsOfOlder
<1>. QED BY <1>2, <1>3, <1>4, <1>6 DEF Joined, ReferrersCameFirst

LEMMA EndKeeps ==
  ASSUME ReferralsInv, NEW l \in Links, LinkEnds(l)
  PROVE  ReferralsInv'
<1>. USE DEF ReferralsInv
<1>1. UNCHANGED <<joined, latest, invited, intent, referral, store, commissions>>
  BY DEF LinkEnds
<1>2. /\ link' \in [Links -> LinkRow]
      /\ \A k \in Links : link'[k].by = link[k].by /\ (link'[k].live => link[k].live)
  BY DEF LinkEnds, ReferralRows, LinkRow
<1>3. ReferralRows'
  BY <1>1, <1>2 DEF ReferralRows
<1>. QED BY <1>1, <1>2, <1>3 DEF Joined, LinksOfUsers, IntentsOfOlder, ReferrersCameFirst,
            LiveLinks

(* Steps that leave the users, the links, the intents and the referrals.   *)
LEMMA ReferralRestKeeps ==
  ASSUME ReferralsInv, ReferralRows', UNCHANGED <<joined, latest, intent, referral, link>>
  PROVE  ReferralsInv'
BY DEF ReferralsInv, Joined, LinksOfUsers, IntentsOfOlder, ReferrersCameFirst, LiveLinks

LEMMA AppliesKeeps ==
  ASSUME ReferralsInv, NEW u \in People, NEW l \in Links, AppliesLink(u, l)
  PROVE  ReferralsInv'
<1>1. UNCHANGED referralVars
  BY DEF AppliesLink, Referred, referralVars
<1>. QED BY <1>1, ReferralRestKeeps DEF referralVars, ReferralsInv, ReferralRows

LEMMA StoresKeep ==
  ASSUME ReferralsInv, NEW u \in People,
         \/ InvitationExpires(u) \/ Hides(u) \/ ShowsAgain(u)
         \/ \E levels \in LevelSets : Publishes(u, levels)
  PROVE  ReferralsInv'
<1>. USE DEF ReferralsInv
<1>1. CASE InvitationExpires(u) \/ Hides(u) \/ ShowsAgain(u)
  <2>1. /\ ReferralRows'
        /\ UNCHANGED <<joined, latest, intent, referral, link>>
    BY <1>1 DEF InvitationExpires, Hides, ShowsAgain, StoreBecomes, ReferralRows,
                StoreState
  <2>. QED BY <2>1, ReferralRestKeeps
<1>2. ASSUME NEW levels \in LevelSets, Publishes(u, levels) PROVE ReferralsInv'
  BY <1>2, ReferralRestKeeps DEF Publishes, StoreBecomes, ReferralRows, StoreState
<1>. QED BY <1>1, <1>2

----------------------------------------------------------------------------
LEMMA ReferralsStep == ReferralsInv /\ [ReferralsNext]_referralVars => ReferralsInv'
<1> SUFFICES ASSUME ReferralsInv, [ReferralsNext]_referralVars PROVE ReferralsInv'
  OBVIOUS
<1>1. CASE UNCHANGED referralVars
  BY <1>1, ReferralRestKeeps DEF referralVars, ReferralsInv, ReferralRows
<1>2. CASE ReferralsNext
  BY <1>2, RequestKeeps, SignInKeeps, LinkKeeps, EndKeeps, AppliesKeeps, StoresKeep
     DEF ReferralsNext
<1>. QED BY <1>1, <1>2

(* Whatever invitations, links and sign-ins come in whatever order: who     *)
(* referred a user was a user before, so that no circle of referrals closes.*)
THEOREM ReferrersAlwaysCameFirst == ReferralsSpec => []ReferrersCameFirst
<1>1. ReferralsInv => ReferrersCameFirst
  BY DEF ReferralsInv
<1>. QED BY <1>1, ReferralsStart, ReferralsStep, PTL DEF ReferralsSpec

(* The walk up the chain is defined by recursion.  That a function with     *)
(* this definition exists, for any length, is shown with the least length   *)
(* for which it would not.                                                  *)
Above(refs, f, n) == IF f[n - 1] = Nobody THEN Nobody ELSE refs[f[n - 1]]

Walks(refs, u, f, k) ==
  f = [n \in 0..k |-> IF n = 0 THEN u ELSE Above(refs, f, n)]

LEMMA LeastNumber ==
  ASSUME NEW T \in SUBSET Nat, T # {}
  PROVE  \E x \in T : \A y \in T : x <= y
<1> DEFINE R == OpToRel(<, Nat)
<1>1. IsWellFoundedOn(R, Nat)
  BY NatLessThanWellFounded
<1>2. \A x, y \in T : x < y => <<x, y>> \in R
  BY DEF OpToRel
<1>. HIDE DEF R
<1>3. PICK x \in T : \A y \in T : <<y, x>> \notin R
  BY <1>1, WFMin
<1>4. ASSUME NEW y \in T PROVE x <= y
  <2>1. ~(y < x)
    BY <1>2, <1>3
  <2>2. x \in Nat /\ y \in Nat
    OBVIOUS
  <2>. QED BY <2>1, <2>2
<1>. QED BY <1>4

LEMMA LongerWalk ==
  ASSUME NEW refs, NEW u, NEW k \in Nat, NEW f, Walks(refs, u, f, k)
  PROVE  \E g : Walks(refs, u, g, k + 1)
<1> DEFINE g == [n \in 0..(k + 1) |-> IF n = k + 1 THEN Above(refs, f, n) ELSE f[n]]
<1>1. \A n \in 0..k : f[n] = IF n = 0 THEN u ELSE Above(refs, f, n)
  BY DEF Walks
<1>2. \A n \in 0..k : g[n] = f[n]
  OBVIOUS
<1>3. g[k + 1] = Above(refs, f, k + 1)
  OBVIOUS
<1>4. \A n \in 1..(k + 1) : n - 1 \in 0..k
  OBVIOUS
<1>5. \A n \in 1..(k + 1) : Above(refs, g, n) = Above(refs, f, n)
  BY <1>2, <1>4 DEF Above
<1>6. ASSUME NEW n \in 0..(k + 1) PROVE g[n] = IF n = 0 THEN u ELSE Above(refs, g, n)
  <2>1. CASE n = k + 1
    BY <1>3, <1>5, <2>1
  <2>2. CASE n \in 0..k
    <3>1. g[n] = IF n = 0 THEN u ELSE Above(refs, f, n)
      BY <1>1, <1>2, <2>2
    <3>2. n # 0 => n \in 1..(k + 1)
      BY <2>2
    <3>. HIDE DEF g
    <3>. QED BY <1>5, <3>1, <3>2
  <2>. QED BY <2>1, <2>2
<1>7. Walks(refs, u, g, k + 1)
  <2>1. g = [n \in 0..(k + 1) |-> g[n]]
    OBVIOUS
  <2>. HIDE DEF g
  <2>. QED BY <1>6, <2>1 DEF Walks
<1>. QED BY <1>7

LEMMA SomeWalk ==
  ASSUME NEW refs, NEW u, NEW k \in Nat
  PROVE  \E f : Walks(refs, u, f, k)
<1> DEFINE Without == {n \in Nat : ~ \E f : Walks(refs, u, f, n)}
<1>1. SUFFICES Without = {}
  OBVIOUS
<1>2. SUFFICES ASSUME Without # {} PROVE FALSE
  OBVIOUS
<1>3. PICK n \in Without : \A m \in Without : n <= m
  <2>1. Without \in SUBSET Nat
    OBVIOUS
  <2>. HIDE DEF Without
  <2>. QED BY <1>2, <2>1, LeastNumber
<1>4. CASE n = 0
  <2> DEFINE f == [m \in 0..0 |-> u]
  <2>1. \A m \in 0..0 : m = 0
    OBVIOUS
  <2>2. f = [m \in 0..0 |-> IF m = 0 THEN u ELSE Above(refs, f, m)]
    BY <2>1
  <2>3. Walks(refs, u, f, 0)
    BY <2>2 DEF Walks
  <2>. QED BY <1>3, <1>4, <2>3
<1>5. CASE n # 0
  <2>1. n \in Nat /\ n - 1 \in Nat /\ n - 1 \notin Without /\ (n - 1) + 1 = n
    BY <1>3, <1>5
  <2>2. PICK f : Walks(refs, u, f, n - 1)
    BY <2>1
  <2>3. \E g : Walks(refs, u, g, (n - 1) + 1)
    BY <2>1, <2>2, LongerWalk
  <2>. QED BY <1>3, <2>1, <2>3
<1>. QED BY <1>4, <1>5

LEMMA WalkIsWalk ==
  ASSUME NEW refs, NEW u
  PROVE  Walks(refs, u, Walk(refs, u), Depth)
<1>1. Depth \in Nat
  BY ReferralsAssumption
<1>2. PICK f : Walks(refs, u, f, Depth)
  BY <1>1, SomeWalk
<1>3. Walk(refs, u) = CHOOSE up : Walks(refs, u, up, Depth)
  BY DEF Walk, Walks, Above
<1>. QED BY <1>2, <1>3

LEMMA WalkSteps ==
  ASSUME NEW refs, NEW u
  PROVE  /\ Walk(refs, u)[0] = u
         /\ \A n \in 1..Depth :
              Walk(refs, u)[n] = IF Walk(refs, u)[n - 1] = Nobody THEN Nobody
                                 ELSE refs[Walk(refs, u)[n - 1]]
<1> DEFINE f == Walk(refs, u)
<1>1. Walks(refs, u, f, Depth)
  BY WalkIsWalk
<1>. HIDE DEF f
<1>2. \A n \in 0..Depth : f[n] = IF n = 0 THEN u ELSE Above(refs, f, n)
  BY <1>1 DEF Walks
<1>3. 0 \in 0..Depth /\ \A n \in 1..Depth : n \in 0..Depth /\ n # 0
  BY ReferralsAssumption
<1>. QED BY <1>2, <1>3 DEF Above, f

(* What holds of one's own place and is passed on to the next level holds   *)
(* at every level: there is no least one at which it fails.                 *)
LEMMA EveryLevel ==
  ASSUME NEW Holds, NEW k \in Nat, 0 \in Holds,
         \A n \in 1..k : n - 1 \in Holds => n \in Holds
  PROVE  \A n \in 0..k : n \in Holds
<1> DEFINE Fails == {n \in 0..k : n \notin Holds}
<1>1. SUFFICES ASSUME Fails # {} PROVE FALSE
  OBVIOUS
<1>2. PICK n \in Fails : \A m \in Fails : n <= m
  <2>1. Fails \in SUBSET Nat
    OBVIOUS
  <2>. HIDE DEF Fails
  <2>. QED BY <1>1, <2>1, LeastNumber
<1>3. n \in 1..k
  BY <1>2
<1>4. n - 1 \in 0..k /\ n - 1 \notin Fails
  BY <1>2, <1>3
<1>. QED BY <1>2, <1>3, <1>4

LEMMA WalkOfPeople ==
  ASSUME NEW refs \in [People -> People \cup {Nobody}], NEW u \in People
  PROVE  \A n \in 0..Depth : Walk(refs, u)[n] \in People \cup {Nobody}
<1> DEFINE Holds == {n \in Nat : Walk(refs, u)[n] \in People \cup {Nobody}}
<1>1. Depth \in Nat /\ \A n \in 0..Depth : n \in Nat
  BY ReferralsAssumption
<1>2. 0 \in Holds
  BY WalkSteps
<1>3. ASSUME NEW n \in 1..Depth, n - 1 \in Holds PROVE n \in Holds
  <2>1. Walk(refs, u)[n] = IF Walk(refs, u)[n - 1] = Nobody THEN Nobody
                           ELSE refs[Walk(refs, u)[n - 1]]
    BY WalkSteps
  <2>2. n \in Nat
    BY <1>1
  <2>. QED BY <1>3, <2>1, <2>2
<1>4. \A n \in 0..Depth : n \in Holds
  <2>. HIDE DEF Holds
  <2>. QED BY <1>1, <1>2, <1>3, EveryLevel
<1>. QED BY <1>4

(* A referral that is made later lengthens walks and changes no level that  *)
(* was reached.                                                             *)
LEMMA WalkStays ==
  ASSUME NEW refs \in [People -> People \cup {Nobody}], NEW later,
         \A x \in People : refs[x] # Nobody => later[x] = refs[x], NEW u \in People
  PROVE  \A n \in 0..Depth : Walk(refs, u)[n] # Nobody => Walk(later, u)[n] = Walk(refs, u)[n]
<1> DEFINE Holds == {n \in Nat : Walk(refs, u)[n] # Nobody =>
                                   Walk(later, u)[n] = Walk(refs, u)[n]}
<1>1. Depth \in Nat /\ \A n \in 0..Depth : n \in Nat
  BY ReferralsAssumption
<1>2. 0 \in Holds
  BY WalkSteps
<1>3. ASSUME NEW n \in 1..Depth, n - 1 \in Holds PROVE n \in Holds
  <2> DEFINE before == Walk(refs, u)[n - 1]
  <2>1. /\ Walk(refs, u)[n] = IF before = Nobody THEN Nobody ELSE refs[before]
        /\ Walk(later, u)[n] = IF Walk(later, u)[n - 1] = Nobody THEN Nobody
                               ELSE later[Walk(later, u)[n - 1]]
    BY WalkSteps
  <2>2. n \in Nat /\ n - 1 \in 0..Depth
    BY <1>1
  <2>3. before \in People \cup {Nobody}
    BY <2>2, WalkOfPeople
  <2>4. before # Nobody => Walk(later, u)[n - 1] = before
    BY <1>3
  <2>. QED BY <2>1, <2>2, <2>3, <2>4
<1>4. \A n \in 0..Depth : n \in Holds
  <2>. HIDE DEF Holds
  <2>. QED BY <1>1, <1>2, <1>3, EveryLevel
<1>. QED BY <1>4

(* Nobody is above himself: at every level stands somebody who joined       *)
(* before.                                                                  *)
LEMMA UplinesAreOlder ==
  ASSUME ReferralsInv, NEW u \in People
  PROVE  \A n \in 1..Depth : Upline(u)[n] # Nobody =>
           Upline(u)[n] \in People /\ joined[Upline(u)[n]] < joined[u]
<1> DEFINE up(n) == Walk(referral, u)[n]
           Holds == {n \in Nat : n = 0 \/ up(n) = Nobody \/ joined[up(n)] < joined[u]}
<1>1. Depth \in Nat /\ \A n \in 0..Depth : n \in Nat
  BY ReferralsAssumption
<1>2. /\ referral \in [People -> People \cup {Nobody}]
      /\ \A x \in People : joined[x] \in Nat
      /\ \A x \in People : referral[x] # Nobody =>
           referral[x] \in People /\ joined[referral[x]] < joined[x]
  BY DEF ReferralsInv, ReferralRows, ReferrersCameFirst
<1>3. 0 \in Holds
  OBVIOUS
<1>4. \A n \in 0..Depth : up(n) \in People \cup {Nobody}
  BY <1>2, WalkOfPeople
<1>5. ASSUME NEW n \in 1..Depth, n - 1 \in Holds PROVE n \in Holds
  <2>1. up(n) = IF up(n - 1) = Nobody THEN Nobody ELSE referral[up(n - 1)]
    BY WalkSteps
  <2>2. n \in Nat /\ n - 1 \in 0..Depth /\ up(0) = u
    BY <1>1, WalkSteps
  <2>3. up(n - 1) \in People \cup {Nobody}
    BY <1>4, <2>2
  <2>4. n - 1 = 0 \/ up(n - 1) = Nobody \/ joined[up(n - 1)] < joined[u]
    BY <1>5
  <2>. HIDE DEF up
  <2>5. CASE up(n - 1) = Nobody
    BY <2>1, <2>2, <2>5
  <2>6. CASE n - 1 = 0 /\ up(n - 1) # Nobody
    BY <1>2, <2>1, <2>2, <2>6
  <2>7. CASE up(n - 1) # Nobody /\ joined[up(n - 1)] < joined[u]
    <3>1. up(n - 1) \in People /\ up(n) = referral[up(n - 1)]
      BY <2>1, <2>3, <2>7
    <3>2. up(n) # Nobody => up(n) \in People /\ joined[up(n)] < joined[up(n - 1)]
      BY <1>2, <3>1
    <3>3. up(n) # Nobody => joined[up(n)] < joined[u]
      BY <1>2, <2>7, <3>1, <3>2
    <3>. QED BY <2>2, <3>3
  <2>. QED BY <2>4, <2>5, <2>6, <2>7
<1>6. \A n \in 0..Depth : n \in Holds
  <2>. HIDE DEF Holds
  <2>. QED BY <1>1, <1>3, <1>5, EveryLevel
<1>7. \A n \in 1..Depth : n \in 0..Depth /\ n # 0
  BY <1>1
<1>. QED BY <1>4, <1>6, <1>7 DEF Upline

EarnedInv ==
  \A c \in commissions :
    /\ c \in Commission
    /\ c.beneficiary = Upline(c.payment)[c.level] /\ c.beneficiary # c.payment

(* Rows that are there stay true when referrals are only added.             *)
LEMMA EarnedStays ==
  ASSUME ReferralsInv, EarnedInv, UNCHANGED commissions,
         \A x \in People : referral[x] # Nobody => referral'[x] = referral[x]
  PROVE  EarnedInv'
<1>1. referral \in [People -> People \cup {Nobody}]
  BY DEF ReferralsInv, ReferralRows
<1>2. ASSUME NEW c \in commissions
      PROVE  c.beneficiary = Walk(referral', c.payment)[c.level]
  <2>1. /\ c.payment \in People /\ c.level \in 0..Depth /\ c.beneficiary # Nobody
        /\ c.beneficiary = Walk(referral, c.payment)[c.level]
    BY ReferralsAssumption DEF EarnedInv, Commission, Upline
  <2>2. \A n \in 0..Depth : Walk(referral, c.payment)[n] # Nobody =>
          Walk(referral', c.payment)[n] = Walk(referral, c.payment)[n]
    BY <1>1, <2>1, WalkStays
  <2>. QED BY <2>1, <2>2
<1>. QED BY <1>2 DEF EarnedInv, Upline

LEMMA EarnedStep ==
  ASSUME ReferralsInv, EarnedInv, [ReferralsNext]_referralVars
  PROVE  EarnedInv'
<1>1. ASSUME UNCHANGED <<referral, commissions>> PROVE EarnedInv'
  BY <1>1 DEF EarnedInv, Upline
<1>2. ASSUME NEW u \in People, SignsIn(u) PROVE EarnedInv'
  <2>1. UNCHANGED commissions
    BY <1>2 DEF SignsIn
  <2>2. \A x \in People : referral[x] # Nobody => referral'[x] = referral[x]
    BY <1>2 DEF SignsIn, Referred, ReferralsInv, ReferralRows
  <2>. QED BY <2>1, <2>2, EarnedStays
<1>3. ASSUME NEW u \in People, NEW levels \in LevelSets, Publishes(u, levels)
      PROVE  EarnedInv'
  <2>1. commissions' = commissions \cup Earned(u, levels) /\ UNCHANGED <<referral, joined>>
    BY <1>3 DEF Publishes
  <2>2. ASSUME NEW c \in Earned(u, levels)
        PROVE  /\ c \in Commission
               /\ c.beneficiary = Upline(c.payment)[c.level] /\ c.beneficiary # c.payment
    <3>1. PICK n \in levels : /\ Upline(u)[n] # Nobody
                              /\ c = [payment |-> u, beneficiary |-> Upline(u)[n], level |-> n]
      BY DEF Earned
    <3>2. n \in 1..Depth
      BY ReferralsAssumption
    <3>3. Upline(u)[n] \in People /\ joined[Upline(u)[n]] < joined[u]
      BY <3>1, <3>2, UplinesAreOlder
    <3>4. Upline(u)[n] # u
      BY <3>3 DEF ReferralsInv, ReferralRows
    <3>. QED BY <3>1, <3>2, <3>3, <3>4 DEF Commission
  <2>3. \A x : Upline(x)' = Upline(x)
    BY <2>1 DEF Upline
  <2>. QED BY <2>1, <2>2, <2>3 DEF EarnedInv
<1>4. ASSUME NEW u \in People, NEW l \in Links, AppliesLink(u, l) PROVE EarnedInv'
  BY <1>1, <1>4 DEF AppliesLink, Referred
<1>5. ASSUME NEW u \in People,
             \/ \E l \in Links \cup {NoLink} : RequestCode(u, l)
             \/ InvitationExpires(u) \/ Hides(u) \/ ShowsAgain(u)
             \/ \E owner \in People : MakesLink(u, owner)
      PROVE  EarnedInv'
  BY <1>1, <1>5 DEF RequestCode, InvitationExpires, Hides, ShowsAgain, MakesLink
<1>6. ASSUME NEW l \in Links, LinkEnds(l) PROVE EarnedInv'
  BY <1>1, <1>6 DEF LinkEnds
<1>7. CASE UNCHANGED referralVars
  BY <1>1, <1>7 DEF referralVars
<1>. QED BY <1>2, <1>3, <1>4, <1>5, <1>6, <1>7 DEF ReferralsNext

(* However many levels there are, and however late a user above is          *)
(* referred: a commission is its level's upline's for good, and nobody      *)
(* earns from the own store (accrue_store_publication_commissions).         *)
THEOREM CommissionsAlwaysFollow == ReferralsSpec => []CommissionsFollowUplines
<1>1. ReferralsInit => EarnedInv
  BY DEF ReferralsInit, EarnedInv
<1>2. EarnedInv => CommissionsFollowUplines
  BY DEF EarnedInv, CommissionsFollowUplines
<1>3. ReferralsInv /\ EarnedInv /\ [ReferralsNext]_referralVars => EarnedInv'
  BY EarnedStep
<1>. QED BY <1>1, <1>2, <1>3, ReferralsStart, ReferralsStep, PTL DEF ReferralsSpec
=============================================================================
