------------------------ MODULE RequestFormPageProofs ------------------------
(* The invariants of RequestFormPage, for any handles and addresses.        *)
EXTENDS RequestFormPage, TLAPS

\* What a page never loses: its form's own inputs, and, where the script does
\* not run, or has nothing to do, that all of them are open.
PageFits(g) ==
    /\ g.view # "personal_info" => g.object_type # NULL
    /\ g.view \in DeliveryViews => g.send_to \in SendTo
    /\ g.view \in LockViews =>
          /\ g.lock_type # NULL /\ g.send_to = NULL /\ g.email = NULL
    /\ ~(g.script /\ Delivery(g)) => ~g.email_disabled /\ ~g.method_disabled

\* InputsFollowChoice, of any page.
Follows(g) ==
    g.script /\ Delivery(g) =>
        /\ g.email_disabled <=> InRegistry(g)
        /\ g.method_disabled <=> InRegistry(g)
        /\ InRegistry(g) => g.email = NULL /\ g.method = "signed_email"

GoodPage(g) == g \in PageStates /\ PageFits(g) /\ Follows(g)

\* A page the script is to make ready: the method is already the default
\* wherever the registry's e-mail is chosen.
Unready(g) ==
    /\ g \in PageStates
    /\ PageFits(g)
    /\ g.script /\ Delivery(g) =>
          /\ InRegistry(g) => g.method = "signed_email"
          /\ g.method_disabled => InRegistry(g)

LEMMA ReadyFollows ==
    ASSUME NEW g, Unready(g)
    PROVE  GoodPage(Ready(g))
<1>1. CASE ~g.script \/ ~Delivery(g)
  <2>1. Ready(g) = g
    BY <1>1 DEF Ready
  <2> QED BY <1>1, <2>1 DEF Unready, GoodPage, PageFits, Follows
<1>2. CASE g.script /\ Delivery(g) /\ InRegistry(g)
  <2>1. Ready(g) = Closed(g)
    BY <1>2 DEF Ready
  <2> QED BY <1>2, <2>1 DEF Closed, Unready, GoodPage, PageFits, Follows, PageStates,
            Delivery, InRegistry, DeliveryViews, LockViews, Views
<1>3. CASE g.script /\ Delivery(g) /\ ~InRegistry(g)
  <2>1. Ready(g) = [g EXCEPT !.email_disabled = FALSE]
    BY <1>3 DEF Ready
  <2> QED BY <1>3, <2>1 DEF Unready, GoodPage, PageFits, Follows, PageStates,
            Delivery, InRegistry, DeliveryViews, LockViews, Views
<1> QED BY <1>1, <1>2, <1>3

LEMMA InitialIsUnready ==
    ASSUME NEW view \in Views, NEW script \in BOOLEAN,
           NEW handle \in HandleInputs, NEW object_type \in ObjectType,
           NEW send_to \in SendTo, NEW lock_type \in LockType
    PROVE  Unready(Initial(view, script, handle, object_type, send_to, lock_type))
<1> DEFINE g == Initial(view, script, handle, object_type, send_to, lock_type)
<1> USE DEF Views, DeliveryViews, LockViews
<1>1. g \in PageStates
  BY DEF Initial, PageStates, SendTo, ConfirmationMethod, HandleInputs, Empty
<1>2. PageFits(g)
  BY NullIsNoOption DEF Initial, PageFits, SendTo, Delivery
<1>3. g.method = "signed_email" /\ ~g.method_disabled
  BY DEF Initial
<1> QED BY <1>1, <1>2, <1>3 DEF Unready

LEMMA ClickedFollows ==
    ASSUME NEW g, GoodPage(g), Delivery(g), NEW choice \in SendTo
    PROVE  GoodPage(Clicked([g EXCEPT !.send_to = choice]))
<1> DEFINE h == [g EXCEPT !.send_to = choice]
<1>1. /\ h \in PageStates /\ PageFits(h) /\ Delivery(h)
      /\ h.script = g.script /\ h.send_to = choice
  BY DEF GoodPage, PageStates, PageFits, Delivery, DeliveryViews, LockViews
<1>2. CASE ~h.script
  <2>1. Clicked(h) = h
    BY <1>2 DEF Clicked
  <2> QED BY <1>1, <1>2, <2>1 DEF GoodPage, Follows
<1>3. CASE h.script /\ InRegistry(h)
  <2>1. Clicked(h) = [Closed(h) EXCEPT !.method = "signed_email"]
    BY <1>3 DEF Clicked
  <2>2. /\ Clicked(h) \in PageStates
        /\ Clicked(h).email = NULL /\ Clicked(h).method = "signed_email"
        /\ Clicked(h).email_disabled /\ Clicked(h).method_disabled
        /\ \A x \in {"view", "script", "object_type", "send_to", "lock_type"} :
              Clicked(h)[x] = h[x]
    BY <1>1, <2>1 DEF Closed, PageStates, ConfirmationMethod
  <2> QED BY <1>1, <1>3, <2>2 DEF GoodPage, Follows, PageFits, Delivery, InRegistry
<1>4. CASE h.script /\ ~InRegistry(h)
  <2>1. Clicked(h) = [h EXCEPT !.email_disabled = FALSE, !.method_disabled = FALSE]
    BY <1>4 DEF Clicked
  <2>2. /\ Clicked(h) \in PageStates
        /\ ~Clicked(h).email_disabled /\ ~Clicked(h).method_disabled
        /\ \A x \in {"view", "script", "object_type", "send_to", "email", "lock_type"} :
              Clicked(h)[x] = h[x]
    BY <1>1, <2>1 DEF PageStates
  <2> QED BY <1>1, <1>4, <2>2 DEF GoodPage, Follows, PageFits, Delivery, InRegistry
<1> QED BY <1>2, <1>3, <1>4

LEMMA ShownAgainIsUnready ==
    ASSUME NEW g, GoodPage(g)
    PROVE  Unready(ShownAgain(g))
<1>1. /\ ShownAgain(g) \in PageStates
      /\ ~ShownAgain(g).email_disabled /\ ~ShownAgain(g).method_disabled
      /\ \A x \in {"view", "script", "object_type", "send_to", "lock_type"} :
            ShownAgain(g)[x] = g[x]
      /\ ShownAgain(g).email = IF g.email_disabled THEN NULL ELSE g.email
      /\ ShownAgain(g).method = IF g.method_disabled THEN "signed_email" ELSE g.method
  BY DEF ShownAgain, GoodPage, PageStates, ConfirmationMethod
<1>2. PageFits(ShownAgain(g))
  BY <1>1 DEF GoodPage, PageFits, Delivery
<1>3. g.script /\ Delivery(g) /\ InRegistry(g) => ShownAgain(g).method = "signed_email"
  BY <1>1 DEF GoodPage, Follows
<1> QED BY <1>1, <1>2, <1>3 DEF Unready, Delivery, InRegistry

\* Every page starts good, and every action of the user keeps it so.
LEMMA InitGoodPage == Init => GoodPage(page)
BY ReadyFollows, InitialIsUnready DEF Init

LEMMA NextGoodPage == GoodPage(page) /\ [Next]_vars => GoodPage(page)'
<1> SUFFICES ASSUME GoodPage(page), [Next]_vars PROVE GoodPage(page')
  OBVIOUS
<1>1. ASSUME NEW choice \in SendTo, ClickSendTo(choice) PROVE GoodPage(page')
  BY <1>1, ClickedFollows DEF ClickSendTo
<1>2. ASSUME NEW email \in Emails \cup {Refused, NULL}, TypeEmail(email)
      PROVE  GoodPage(page')
  BY <1>2 DEF TypeEmail, GoodPage, PageStates, PageFits, Follows, Delivery, InRegistry,
     DeliveryViews, LockViews
<1>3. ASSUME NEW method \in ConfirmationMethod, ChooseMethod(method)
      PROVE  GoodPage(page')
  <2> DEFINE h == [page EXCEPT !.method = method]
  <2>1. GoodPage(h)
    BY <1>3 DEF ChooseMethod, GoodPage, PageStates, PageFits, Follows, Delivery, InRegistry
  <2>2. CASE page.script /\ Delivery(page) /\ method = "notarized_letter"
    \* An enabled method means a custom e-mail: the handler changes nothing.
    <3>1. page.send_to = "custom_email" /\ ~page.email_disabled
      BY <1>3, <2>2 DEF ChooseMethod, GoodPage, PageFits, Follows, InRegistry, SendTo,
         Delivery
    <3>2. MethodChanged(h) = h
      BY <2>2, <3>1 DEF MethodChanged, GoodPage, PageStates, Delivery
    <3> QED BY <1>3, <2>1, <3>2 DEF ChooseMethod
  <2>3. CASE ~(page.script /\ Delivery(page) /\ method = "notarized_letter")
    <3>1. MethodChanged(h) = h
      BY <2>3 DEF MethodChanged, GoodPage, PageStates, Delivery
    <3> QED BY <1>3, <2>1, <3>1 DEF ChooseMethod
  <2> QED BY <2>2, <2>3
<1>4. ASSUME NEW handle \in HandleInputs, TypeHandle(handle)
      PROVE  GoodPage(page')
  BY <1>4 DEF TypeHandle, GoodPage, PageStates, PageFits, Follows, Delivery, InRegistry
<1>5. CASE Reload
  <2> PICK kept \in BOOLEAN :
        page' = Ready([page EXCEPT !.email_disabled = kept /\ @,
                                   !.method_disabled = kept /\ @])
    BY <1>5 DEF Reload
  <2> DEFINE h == [page EXCEPT !.email_disabled = kept /\ @, !.method_disabled = kept /\ @]
  <2>1. Unready(h)
    BY DEF Unready, GoodPage, PageStates, PageFits, Follows, Delivery, InRegistry
  <2> QED BY <2>1, ReadyFollows
<1>6. CASE SendRefused
  BY <1>6 DEF SendRefused
<1>7. CASE Send
  BY <1>7, ShownAgainIsUnready, ReadyFollows DEF Send
<1>8. CASE UNCHANGED vars
  BY <1>8 DEF vars
<1> QED BY <1>1, <1>2, <1>3, <1>4, <1>5, <1>6, <1>7, <1>8 DEF Next

\* The invariant every property below follows from.
LEMMA AlwaysGoodPage == Spec => []GoodPage(page)
BY InitGoodPage, NextGoodPage, PTL DEF Spec

-----------------------------------------------------------------------------

\* The page and the reply stay what a browser can show.
THEOREM PageTypeCorrect == Spec => []TypeOK
<1> DEFINE ReplyOK == reply \in Pages \cup {"form", "server_error", "incomplete", NULL}
<1>1. Init => ReplyOK
  BY DEF Init
<1>2. ReplyOK /\ [Next]_vars => ReplyOK'
  <2>1. \A f : Replies(f) \subseteq Pages \cup {"form", "server_error"}
    BY DEF Replies, SuccessUrl, Pages
  <2> QED BY <2>1 DEF Next, vars, ClickSendTo, TypeEmail, ChooseMethod, TypeHandle, Reload,
            SendRefused, Send
<1>3. GoodPage(page) /\ ReplyOK => TypeOK
  BY DEF GoodPage, TypeOK
<1> QED BY <1>1, <1>2, <1>3, AlwaysGoodPage, PTL DEF Spec

\* Where the script runs, the inputs follow the radio (webwhois.js).
THEOREM ScriptKeepsInputs == Spec => []InputsFollowChoice
<1>1. GoodPage(page) => InputsFollowChoice
  BY DEF GoodPage, Follows, InputsFollowChoice
<1> QED BY <1>1, AlwaysGoodPage, PTL

\* What the script lets through, the form refuses for a text it does not take
\* and for nothing else.
THEOREM ScriptAgreesWithForm == Spec => []PostIsAccepted
<1>1. ASSUME GoodPage(page), page.script, IsComplete(page), TextsAreAccepted(page)
      PROVE  IsValid(Posted(page))
  <2> DEFINE f == Posted(page)
  <2>1. CASE Delivery(page)
    <3>1. /\ page.send_to \in SendTo
          /\ InRegistry(page) => page.email = NULL /\ page.method_disabled
          /\ ~InRegistry(page) => page.email # NULL
      BY <1>1, <2>1 DEF GoodPage, PageFits, Follows, IsComplete, Delivery
    <3>2. /\ f.view = page.view /\ f.send_to = page.send_to /\ f.custom_email = page.email
          /\ f.handle = CleanedHandle(page.handle) /\ f.object_type = page.object_type
          /\ page.method_disabled => f.confirmation_method = NULL
      BY <1>1 DEF Posted, TextsAreAccepted
    <3>3. DeliveryIsValid(f)
      BY <3>1, <3>2, NullIsNoOption DEF DeliveryIsValid, InRegistry, SendTo
    <3>4. LetterGoesToCustomEmail(f)
      BY <3>1, <3>2, NullIsNoOption DEF LetterGoesToCustomEmail, InRegistry, SendTo
    <3>5. f.handle # NULL /\ (f.view # "personal_info" => f.object_type # NULL)
      BY <1>1, <3>2 DEF GoodPage, PageFits, TextsAreAccepted
    <3> QED BY <2>1, <3>2, <3>3, <3>4, <3>5 DEF IsValid, Delivery, DeliveryViews, LockViews
  <2>2. CASE ~Delivery(page)
    BY <1>1, <2>2 DEF GoodPage, PageFits, TextsAreAccepted, IsValid, Posted, Delivery,
       PageStates, Views, DeliveryViews, LockViews
  <2> QED BY <2>1, <2>2
<1>2. ASSUME GoodPage(page), page.script, IsComplete(page), IsValid(Posted(page))
      PROVE  TextsAreAccepted(page)
  <2>1. CleanedHandle(page.handle) # NULL
    BY <1>2 DEF IsValid, Posted
  <2>2. Delivery(page) => page.email # Refused
    BY <1>2 DEF IsValid, DeliveryIsValid, Posted, Delivery
  \* The forms of the locks have no address.
  <2>3. ~Delivery(page) => page.email # Refused
    BY <1>2, NullIsNoOption DEF GoodPage, PageFits, PageStates, Delivery, Views
  <2> QED BY <2>1, <2>2, <2>3 DEF TextsAreAccepted
<1>3. GoodPage(page) => PostIsAccepted
  BY <1>1, <1>2 DEF PostIsAccepted
<1> QED BY <1>3, AlwaysGoodPage, PTL

\* No page sends a valid form without the confirmation the command needs.
THEOREM PagesGiveConfirmation == Spec => []ConfirmationIsGiven
<1>1. GoodPage(page) => ConfirmationIsGiven
  <2> SUFFICES ASSUME GoodPage(page), IsValid(Posted(page)),
                      ConfirmationIsMissing(Posted(page))
               PROVE  FALSE
    BY DEF ConfirmationIsGiven
  <2>1. page.method_disabled
    BY NullIsNoOption DEF ConfirmationIsMissing, Posted, GoodPage, PageStates
  <2>2. page.script /\ Delivery(page) /\ page.send_to = "email_in_registry"
    BY <2>1 DEF GoodPage, PageFits, Follows, InRegistry
  <2>3. Posted(page).view \notin LockViews
    BY <2>2 DEF Posted, Delivery, DeliveryViews, LockViews
  <2>4. Posted(page).send_to # "custom_email"
    BY <2>2, NullIsNoOption DEF Posted, SendTo
  <2> QED BY <2>3, <2>4 DEF ConfirmationIsMissing, NeedsConfirmation
<1> QED BY <1>1, AlwaysGoodPage, PTL

LEMMA SamePage ==
    ASSUME NEW g \in PageStates, NEW h \in PageStates,
           h.view = g.view, h.script = g.script, h.object_type = g.object_type,
           h.handle = g.handle, h.send_to = g.send_to, h.email = g.email,
           h.email_disabled = g.email_disabled, h.method = g.method,
           h.method_disabled = g.method_disabled, h.lock_type = g.lock_type
    PROVE  h = g
BY DEF PageStates

LEMMA ShownAgainOpen ==
    ASSUME NEW g \in PageStates, g.email_disabled = FALSE, g.method_disabled = FALSE
    PROVE  ShownAgain(g) = g
<1>1. ShownAgain(g) \in PageStates
  BY DEF ShownAgain, PageStates, ConfirmationMethod
<1> QED BY <1>1, SamePage DEF ShownAgain, PageStates

LEMMA ShownAgainIsTheSame ==
    ASSUME NEW g, GoodPage(g)
    PROVE  Ready(ShownAgain(g)) = g
<1> DEFINE h == ShownAgain(g)
<1>1. h.script = g.script /\ h.view = g.view /\ h.send_to = g.send_to
  BY DEF ShownAgain, GoodPage, PageStates
<1>2. CASE g.script /\ Delivery(g) /\ InRegistry(g)
  <2>1. /\ g.email_disabled = TRUE /\ g.method_disabled = TRUE
        /\ g.email = NULL /\ g.method = "signed_email"
    BY <1>2 DEF GoodPage, Follows, PageStates
  <2>2. Ready(h) = Closed(h)
    BY <1>1, <1>2 DEF Ready, Delivery, InRegistry
  <2>3. Closed(h) \in PageStates
    BY DEF Closed, ShownAgain, GoodPage, PageStates, ConfirmationMethod
  <2>4. /\ h \in PageStates /\ h.method = "signed_email"
        /\ h.object_type = g.object_type /\ h.handle = g.handle /\ h.lock_type = g.lock_type
    BY <2>1 DEF ShownAgain, GoodPage, PageStates, ConfirmationMethod
  <2>5. /\ Closed(h).email = NULL
        /\ Closed(h).email_disabled = TRUE /\ Closed(h).method_disabled = TRUE
        /\ \A x \in {"view", "script", "object_type", "handle", "send_to", "method", "lock_type"} :
              Closed(h)[x] = h[x]
    BY <2>4 DEF Closed, PageStates
  <2>6. Closed(h) = g
    BY <1>1, <2>1, <2>3, <2>4, <2>5, SamePage DEF GoodPage
  <2> QED BY <2>2, <2>6
<1>3. CASE g.script /\ Delivery(g) /\ ~InRegistry(g)
  <2>1. g.email_disabled = FALSE /\ g.method_disabled = FALSE
    BY <1>3 DEF GoodPage, Follows, PageStates
  <2>2. Ready(h) = [h EXCEPT !.email_disabled = FALSE]
    BY <1>1, <1>3 DEF Ready, Delivery, InRegistry
  <2>3. h = g
    BY <2>1, ShownAgainOpen DEF GoodPage
  <2>4. [g EXCEPT !.email_disabled = FALSE] = g
    BY <2>1 DEF GoodPage, PageStates
  <2> QED BY <2>2, <2>3, <2>4
<1>4. CASE ~(g.script /\ Delivery(g))
  <2>1. g.email_disabled = FALSE /\ g.method_disabled = FALSE
    BY <1>4 DEF GoodPage, PageFits, PageStates
  <2>2. Ready(h) = h
    BY <1>1, <1>4 DEF Ready, Delivery
  <2> QED BY <2>1, <2>2, ShownAgainOpen DEF GoodPage
<1> QED BY <1>2, <1>3, <1>4

\* A form shown again has every input as the user left it.
THEOREM NothingIsRetyped == Spec => ChoicesSurvive
<1>1. GoodPage(page) /\ [Next]_vars => [reply' = "form" => page' = page]_vars
  <2> SUFFICES ASSUME GoodPage(page), Next, reply' = "form", ~UNCHANGED vars
               PROVE  page' = page
    OBVIOUS
  <2>1. reply' # NULL
    BY NullIsNoOption
  <2> QED BY <2>1, ShownAgainIsTheSame
       DEF Next, ClickSendTo, TypeEmail, ChooseMethod, TypeHandle, Reload, SendRefused, Send
<1> QED BY <1>1, AlwaysGoodPage, PTL DEF Spec, ChoicesSurvive

=============================================================================
