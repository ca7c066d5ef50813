------------------------------ MODULE ContactsPage ------------------------------
(***************************************************************************)
(* The contacts page: the address books, the one that is selected, and its  *)
(* contacts, which are shown for the book that was selected when they were   *)
(* asked for.                                                               *)
(***************************************************************************)
EXTENDS WebRequests, FiniteSets

CONSTANTS Books,         \* books that are there at first, the first one selected by default
          MaxBookClicks

NoBook == {"no book"}
NoneActive == "none"

ASSUME ContactsAssumption == IsFiniteSet(Books) /\ NoneActive \notin Books /\ MaxBookClicks \in Nat

VARIABLES books,         \* the server: book -> its contacts, or NoBook
          bookList,      \* #ab-list
          active,        \* the book marked as active there
          currentBook,   \* currentBookId
          contacts,      \* allContacts
          contactsLate,  \* history: answers came in another order, or were lost
          markLate,      \* the same, for the marked book
          bookClicks

contactState == <<books, bookList, active, currentBook, contacts, contactsLate, markLate, bookClicks>>
contactVars == <<web, contactState>>

ContactsInit == /\ books = [b \in Books |-> {<<b, "old">>}]
                /\ bookList = {} /\ active = NoneActive /\ currentBook = NoneActive
                /\ contacts = {} /\ contactsLate = FALSE /\ markLate = FALSE /\ bookClicks = 0

FirstBooks == <<Request("books", NoneActive)>>
ContactsOf(b) == Request("contacts", b)
Existing == {b \in Books : books[b] # NoBook}

---------------------------------------------------------------------------
BookClick == bookClicks < MaxBookClicks /\ bookClicks' = bookClicks + 1

(* Mistake: a book that is selected is not loaded. *)
SelectMarked(b) == <<Request("books", b)>>
SelectLoads(b) == <<ContactsOf(b), Request("books", b)>>

SelectBook(b) == /\ MaySend /\ BookClick /\ b \in bookList
                 /\ currentBook' = b
                 /\ net' = net \o SelectLoads(b)
                 /\ contactsLate' = (contactsLate /\ Waiting({"contacts"}))
                 /\ markLate' = (markLate /\ Waiting({"books"}))
                 /\ UNCHANGED <<faults, popup, page, books, bookList, active, contacts>>

(* The dialogs of Delete have been answered. *)
DeleteBook(b) == /\ MaySend /\ BookClick /\ b \in bookList
                 /\ net' = Append(net, Request("drop", b))
                 /\ UNCHANGED <<faults, popup, page, books, bookList, active, currentBook, contacts,
                                contactsLate, markLate>>

AddContact == /\ MaySend /\ BookClick /\ currentBook # NoneActive
              /\ net' = Append(net, Request("enter", <<currentBook, "new">>))
              /\ UNCHANGED <<faults, popup, page, books, bookList, active, currentBook, contacts,
                             contactsLate, markLate>>

DeleteContact(c) == /\ MaySend /\ BookClick /\ c \in contacts
                    /\ net' = Append(net, Request("strike", c))
                    /\ UNCHANGED <<faults, popup, page, books, bookList, active, currentBook,
                                   contacts, contactsLate, markLate>>

---------------------------------------------------------------------------
(* External: contacts_api.  Contacts of a book that is gone are not found. *)
ServeContacts(n) ==
    /\ net[n].at = "sent"
    /\ \/ net[n].op = "books" /\ net' = Reply(n, Existing) /\ UNCHANGED books
       \/ /\ net[n].op = "contacts"
          /\ net' = IF net[n].arg \in Existing THEN Reply(n, books[net[n].arg]) ELSE Reject(n)
          /\ UNCHANGED books
       \/ /\ net[n].op = "drop"
          /\ net' = IF net[n].arg \in Existing THEN Reply(n, {}) ELSE Reject(n)
          /\ books' = [books EXCEPT ![net[n].arg] = NoBook]
       \/ /\ net[n].op = "enter"
          /\ LET b == net[n].arg[1] IN
             /\ net' = IF b \in Existing THEN Reply(n, {}) ELSE Reject(n)
             /\ books' = IF b \in Existing THEN [books EXCEPT ![b] = @ \cup {net[n].arg}] ELSE books
       \/ /\ net[n].op = "strike"
          /\ LET b == net[n].arg[1] IN
             /\ net' = IF net[n].arg \in books[b] THEN Reply(n, {}) ELSE Reject(n)
             /\ books' = IF b \in Existing THEN [books EXCEPT ![b] = @ \ {net[n].arg}] ELSE books
    /\ UNCHANGED <<faults, popup, page, bookList, active, currentBook, contacts, contactsLate,
                   markLate, bookClicks>>

---------------------------------------------------------------------------
(* The marked book is the one selected when its answer is handled; the first *)
(* answer selects one after it has drawn the list.                           *)
BooksShown(n) ==
    /\ Answered(n, "books")
    /\ bookList' = net[n].ans
    /\ active' = IF currentBook \in net[n].ans THEN currentBook ELSE NoneActive
    /\ \/ /\ currentBook # NoneActive \/ net[n].ans = {}
          /\ net' = Settle(n)
          /\ UNCHANGED currentBook
       \/ /\ currentBook = NoneActive
          /\ \E b \in net[n].ans : currentBook' = b /\ net' = Append(Settle(n), ContactsOf(b))
    /\ markLate' = (markLate \/ Overtakes(n, {"books"}) \/ currentBook = NoneActive)
    /\ UNCHANGED <<faults, popup, page, books, contacts, contactsLate, bookClicks>>

ContactsShown(n) == /\ Answered(n, "contacts")
                    /\ contacts' = net[n].ans
                    /\ contactsLate' = (contactsLate \/ Overtakes(n, {"contacts"}))
                    /\ net' = Settle(n)
                    /\ UNCHANGED <<faults, popup, page, books, bookList, active, currentBook,
                                   markLate, bookClicks>>

(* A deleted book stays selected, and its contacts stay shown. *)
ContactsChanged(n) ==
    /\ \/ Answered(n, "drop") /\ net' = Append(Settle(n), Request("books", currentBook))
       \/ /\ Answered(n, "enter") \/ Answered(n, "strike")
          /\ net' = IF currentBook = NoneActive THEN Settle(n)
                    ELSE Append(Settle(n), ContactsOf(currentBook))
    /\ popup' = NoPopup
    /\ UNCHANGED <<faults, page, contactState>>

ContactsFailed(n) == /\ ShowError(n)
                     /\ contactsLate' = TRUE
                     /\ markLate' = TRUE
                     /\ UNCHANGED <<books, bookList, active, currentBook, contacts, bookClicks>>

ContactsNext ==
    \/ \E b \in Books : SelectBook(b) \/ DeleteBook(b)
    \/ AddContact \/ \E c \in contacts : DeleteContact(c)
    \/ \E n \in DOMAIN net :
         \/ ServeContacts(n)
         \/ BooksShown(n) \/ ContactsShown(n) \/ ContactsChanged(n) \/ ContactsFailed(n)
         \/ (Lose(n) \/ SessionExpired(n)) /\ UNCHANGED contactState
    \/ Dismiss /\ UNCHANGED contactState

ContactsSpec == WebInit(FirstBooks) /\ ContactsInit /\ [][ContactsNext]_contactVars

---------------------------------------------------------------------------
(* When everything is answered, in order and without a loss, the page shows  *)
(* the contacts of the selected book, whatever was selected, added and        *)
(* deleted meanwhile, and marks that book; a book that is gone is neither      *)
(* deselected nor cleared.                                                    *)
ContactsOfBook ==
    page = "open" /\ Quiet /\ currentBook \in Existing =>
        /\ ~contactsLate => contacts = books[currentBook]
        /\ ~markLate => active = currentBook
================================================================================
