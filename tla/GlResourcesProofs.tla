--------------------------- MODULE GlResourcesProofs ---------------------------
(***************************************************************************)
(* Proofs about GlResources, for any supply of names: at each place of the *)
(* two programs the objects that exist are exactly those it has names of,  *)
(* and EGL is taken down from the top.                                     *)
(***************************************************************************)
EXTENDS GlResources, TLAPS

Obj(kind, name) == IF name = 0 THEN {} ELSE {<<kind, name>>}

\* The objects named by the variables.
Named == Obj("shader", vs) \cup Obj("shader", fs) \cup Obj("program", program)
         \cup Obj("buffer", vbo) \cup Obj("array", vao)

\* Until the process ends, what exists is what is named; names appear and
\* vanish with the place.
NamesInv ==
    /\ pc # "exit" => owned = Named
    /\ pc = "exit" => NamesAreLive
    /\ pc \notin {"fs", "link"} => vs = 0
    /\ pc # "link" => fs = 0
    /\ pc \notin {"geometry", "ready", "free", "exit"} => program = 0
    /\ pc \notin {"ready", "free", "exit"} => vbo = 0 /\ vao = 0

\* How much of EGL exists at each place.
EglInv ==
    /\ EglStands
    /\ prog = "egl" =>
          /\ pc = "off" => egl = {}
          /\ pc = "attach" => egl = {"display", "context"}

GlInv == GlTypeOK /\ NamesInv /\ EglInv

------------------------------------------------------------------------------

LEMMA GlInitial == Init => GlInv
  BY DEF Init, GlInv, GlTypeOK, NamesInv, EglInv, EglStands, Named, Obj, Kinds,
         EglThings, Places

\* Every step keeps the types.
LEMMA GlTypesStep ==
    ASSUME GlTypeOK, [Next]_vars
    PROVE  GlTypeOK'
  <1>. USE DEF GlTypeOK
  <1>1. CASE EglSetup
    BY <1>1 DEF EglSetup, glVars, EglThings, Places
  <1>2. CASE EglAttach
    BY <1>2 DEF EglAttach, glVars, EglThings, Places
  <1>3. CASE Realize
    BY <1>3 DEF Realize, glVars, EglThings, Places
  <1>4. CASE CompileVs
    BY <1>4 DEF CompileVs, Compile, Fresh, Places, Kinds
  <1>5. CASE CompileFs
    BY <1>5 DEF CompileFs, Compile, Fresh, Places, Kinds
  <1>6. CASE ShadersFail
    BY <1>6 DEF ShadersFail, ShadersLeft, Less, Failed, Places
  <1>7. CASE Link
    BY <1>7 DEF Link, Linked, Less, Fresh, Places, Kinds
  <1>8. CASE LinkFails
    BY <1>8 DEF LinkFails, Linked, Less, Fresh, Failed, Places, Kinds
  <1>9. CASE Geometry
    <2>1. vbo' \in Names /\ vao' \in Names \cup {0}
      BY <1>9 DEF Geometry, Fresh
    <2>2. owned' \subseteq owned \cup {<<"buffer", vbo'>>}
                                 \cup (IF prog = "cube" THEN {<<"array", vao'>>} ELSE {})
      BY <1>9 DEF Geometry
    <2>3. prog = "cube" => vao' \in Names
      BY <1>9 DEF Geometry, Fresh
    <2>4. owned' \subseteq Kinds \X Names
      BY <2>1, <2>2, <2>3 DEF Kinds
    <2>. QED
      BY <1>9, <2>1, <2>4 DEF Geometry, Places
  <1>10. CASE Free
    BY <1>10 DEF Free, glVars, Places
  <1>11. CASE FreeObjects
    BY <1>11 DEF FreeObjects, Less, Zeroed, Places
  <1>12. CASE Unrealized
    BY <1>12 DEF Unrealized, Places
  <1>13. CASE DropRenderer
    BY <1>13 DEF DropRenderer, glVars, Places
  <1>14. CASE EglTeardown
    BY <1>14 DEF EglTeardown, glVars
  <1>15. CASE EglExit
    BY <1>15 DEF EglExit, glVars, Places
  <1>16. CASE UNCHANGED vars
    BY <1>16 DEF vars, glVars
  <1>. QED
    BY <1>1, <1>2, <1>3, <1>4, <1>5, <1>6, <1>7, <1>8, <1>9, <1>10, <1>11,
       <1>12, <1>13, <1>14, <1>15, <1>16 DEF Next, Ended

\* Every step keeps what exists equal to what is named.
LEMMA GlNamesStep ==
    ASSUME GlTypeOK, NamesInv, [Next]_vars
    PROVE  NamesInv'
  <1>. USE DEF NamesInv, Named, Obj, GlTypeOK
  <1>1. CASE EglSetup
    BY <1>1 DEF EglSetup, glVars, NamesAreLive, Live
  <1>2. CASE EglAttach
    BY <1>2 DEF EglAttach, glVars, NamesAreLive, Live
  <1>3. CASE Realize
    BY <1>3 DEF Realize, glVars
  <1>4. CASE CompileVs
    BY <1>4, NamesAssumption DEF CompileVs, Compile, Fresh
  <1>5. CASE CompileFs
    BY <1>5, NamesAssumption DEF CompileFs, Compile, Fresh
  <1>6. CASE ShadersFail
    BY <1>6 DEF ShadersFail, ShadersLeft, Less, Failed, NamesAreLive, Live
  <1>7. CASE Link
    BY <1>7, NamesAssumption DEF Link, Linked, Less, Fresh
  <1>8. CASE LinkFails
    <2>1. PICK n \in Names : /\ program' = IF prog = "egl" THEN n ELSE 0
                             /\ owned' = IF prog = "egl" THEN Linked(n)
                                         ELSE Less(Linked(n), "program", n)
      BY <1>8 DEF LinkFails, Fresh
    <2>2. owned = Obj("shader", vs) \cup Obj("shader", fs)
      BY <1>8 DEF LinkFails
    <2>3. Linked(n) = {<<"program", n>>}
      BY <2>2 DEF Linked, Less
    <2>4. CASE prog = "egl"
      BY <1>8, <2>1, <2>3, <2>4 DEF LinkFails, Failed, NamesAreLive, Live
    <2>5. CASE prog # "egl"
      BY <1>8, <2>1, <2>3, <2>5 DEF LinkFails, Failed, Less
    <2>. QED  BY <2>4, <2>5
  <1>9. CASE Geometry
    BY <1>9, NamesAssumption DEF Geometry, Fresh
  <1>10. CASE Free
    BY <1>10 DEF Free, glVars
  <1>11. CASE FreeObjects
    BY <1>11 DEF FreeObjects, Less, Zeroed
  <1>12. CASE Unrealized
    BY <1>12 DEF Unrealized
  <1>13. CASE DropRenderer
    BY <1>13 DEF DropRenderer, glVars, NamesAreLive, Live
  <1>14. CASE EglTeardown
    BY <1>14 DEF EglTeardown, glVars
  <1>15. CASE EglExit
    BY <1>15 DEF EglExit, glVars, NamesAreLive, Live
  <1>16. CASE UNCHANGED vars
    BY <1>16 DEF vars, glVars, NamesAreLive, Live
  <1>. QED
    BY <1>1, <1>2, <1>3, <1>4, <1>5, <1>6, <1>7, <1>8, <1>9, <1>10, <1>11,
       <1>12, <1>13, <1>14, <1>15, <1>16 DEF Next, Ended

\* Every step leaves EGL standing.
LEMMA GlEglStep ==
    ASSUME GlTypeOK, EglInv, [Next]_vars
    PROVE  EglInv'
  <1>. USE DEF EglInv, EglStands, GlTypeOK
  <1>1. CASE EglSetup
    BY <1>1 DEF EglSetup
  <1>2. CASE EglAttach
    BY <1>2 DEF EglAttach, EglThings
  <1>3. CASE EglTeardown
    <2>1. PICK i \in 1..5 :
             /\ TeardownOrder[i] \in egl
             /\ \A j \in 1..(i - 1) : TeardownOrder[j] \notin egl
             /\ egl' = egl \ {TeardownOrder[i]}
      BY <1>3 DEF EglTeardown
    <2>2. i = 1 \/ i = 2 \/ i = 3 \/ i = 4 \/ i = 5
      OBVIOUS
    <2>3. CASE i = 1
      BY <1>3, <2>1, <2>3 DEF EglTeardown, TeardownOrder
    <2>4. CASE i = 2
      BY <1>3, <2>1, <2>4 DEF EglTeardown, TeardownOrder
    <2>5. CASE i = 3
      BY <1>3, <2>1, <2>5 DEF EglTeardown, TeardownOrder
    <2>6. CASE i = 4
      BY <1>3, <2>1, <2>6 DEF EglTeardown, TeardownOrder
    <2>7. CASE i = 5
      BY <1>3, <2>1, <2>7 DEF EglTeardown, TeardownOrder
    <2>. QED  BY <2>2, <2>3, <2>4, <2>5, <2>6, <2>7
  <1>4. CASE prog = "cube" /\ prog' = prog
    BY <1>4
  <1>5. CASE prog' = prog /\ egl' = egl /\ pc' \notin {"off", "attach"}
    BY <1>5
  <1>6. CASE UNCHANGED vars
    BY <1>6 DEF vars
  <1>7. Next => \/ EglSetup \/ EglAttach \/ EglTeardown \/ UNCHANGED vars
                \/ prog = "cube" /\ prog' = prog
                \/ prog' = prog /\ egl' = egl /\ pc' \notin {"off", "attach"}
    BY DEF Next, Realize, CompileVs, CompileFs, ShadersFail, Link, LinkFails,
           Failed, Geometry, Free, FreeObjects, Unrealized, DropRenderer, EglExit,
           Ended, vars
  <1>. QED
    BY <1>1, <1>2, <1>3, <1>4, <1>5, <1>6, <1>7

LEMMA GlInvStep == GlInv /\ [Next]_vars => GlInv'
  BY GlTypesStep, GlNamesStep, GlEglStep DEF GlInv

------------------------------------------------------------------------------

\* Whatever fails, at every place of both programs the objects that exist are
\* those the variables name, and EGL stands.
THEOREM GlInvariant == Spec => []GlInv
  BY GlInitial, GlInvStep, PTL DEF Spec

\* The state keeps its types, for any names GL gives out.
THEOREM GlTypes == Spec => []GlTypeOK
  <1>1. GlInv => GlTypeOK
    BY DEF GlInv
  <1>. QED  BY <1>1, GlInvariant, PTL

\* render_frame, draw, render_fini and free_gl never meet a deleted name.
THEOREM NoDeadNames == Spec => []NamesAreLive
  <1>1. GlInv => NamesAreLive
    BY DEF GlInv, NamesInv, Named, Obj, NamesAreLive, Live
  <1>. QED  BY <1>1, GlInvariant, PTL

\* A realize that fails leaves nothing behind, nor does freeing.
THEOREM NothingStays == Spec => []NothingLeft
  <1>1. GlInv => NothingLeft
    BY DEF GlInv, NamesInv, Named, Obj, NothingLeft
  <1>. QED  BY <1>1, GlInvariant, PTL

\* EGL is taken down from the surface to the display.
THEOREM EglTakenDownInOrder == Spec => []EglStands
  <1>1. GlInv => EglStands
    BY DEF GlInv, EglInv
  <1>. QED  BY <1>1, GlInvariant, PTL
================================================================================
