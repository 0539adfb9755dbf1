------------------------------ MODULE GlResources ------------------------------
(***************************************************************************)
(* The OpenGL objects of the two programs of prj/05-GraphStack that draw   *)
(* with the GPU: tspi-greet-egl (main.c, render.c), which makes them once, *)
(* with its EGL display, context and surface, and gtk4-rs-vibe             *)
(* (cube_renderer.rs, the handlers of main.rs), which makes them whenever  *)
(* its area is realized and has to give them back before the context goes. *)
(* Only names, and which calls make and delete them, are kept of the       *)
(* drawing.  GL is external: a call may fail, a name is any that is free.  *)
(***************************************************************************)
EXTENDS Naturals

CONSTANTS Names  \* names GL gives out

ASSUME NamesAssumption == Names \subseteq Nat \ {0}

VARIABLES prog,     \* "egl" or "cube"
          pc,
          egl,      \* what of EGL exists; for "cube" of the area's context
          owned,    \* objects made and not deleted: <<kind, name>>
          vs, fs,   \* the shaders of render_init, of realize
          program, vbo, vao

glVars == <<owned, vs, fs, program, vbo, vao>>
vars == <<prog, pc, egl, glVars>>

Kinds == {"shader", "program", "buffer", "array"}
EglThings == {"display", "context", "window", "surface", "current"}
Places == {"off", "attach", "vs", "fs", "link", "geometry", "ready", "failed",
           "free", "freed", "exit"}

\* Shaders and programs share their names.
Rivals(kind) ==
    IF kind \in {"shader", "program"} THEN {"shader", "program"} ELSE {kind}

\* A name for a new object; a call without a context gives none.
Fresh(kind) ==
    IF "current" \in egl
    THEN {n \in Names : \A k \in Rivals(kind) : <<k, n>> \notin owned}
    ELSE {}

\* Deleting the name 0 does nothing.
Less(objects, kind, name) == objects \ {<<kind, name>>}

Init ==
    /\ prog \in {"egl", "cube"} /\ pc = "off" /\ egl = {} /\ owned = {}
    /\ vs = 0 /\ fs = 0 /\ program = 0 /\ vbo = 0 /\ vao = 0

------------------------------------------------------------------------------
(* EGL: egl_setup and egl_attach_surface, each of which main leaves by *)
(* returning when a step fails                                          *)

EglSetup ==
    /\ prog = "egl" /\ pc = "off"
    /\ \/ egl' = {"display", "context"} /\ pc' = "attach"
       \/ egl' \in {{}, {"display"}} /\ pc' = "exit"
    /\ UNCHANGED <<prog, glVars>>

EglAttach ==
    /\ prog = "egl" /\ pc = "attach"
    /\ \/ egl' = EglThings /\ pc' = "vs"
       \/ /\ \E some \in {{}, {"window"}, {"window", "surface"}} : egl' = egl \cup some
          /\ pc' = "exit"
    /\ UNCHANGED <<prog, glVars>>

\* GTK realizes the area: its context, when one can be made, becomes current.
Realize ==
    /\ prog = "cube" /\ pc = "off"
    /\ egl' \in {{}, {"context", "current"}} /\ pc' = "vs"
    /\ UNCHANGED <<prog, glVars>>

------------------------------------------------------------------------------
(* render_init and CubeRenderer::realize *)

\* compile_shader: 0 when it fails, and then no shader is left.
Compile(n) ==
    \/ n = 0 /\ UNCHANGED owned
    \/ n \in Fresh("shader") /\ owned' = owned \cup {<<"shader", n>>}

CompileVs ==
    /\ pc = "vs" /\ pc' = "fs"
    /\ \E n \in Names \cup {0} : vs' = n /\ Compile(n)
    /\ UNCHANGED <<prog, egl, fs, program, vbo, vao>>

CompileFs ==
    /\ pc = "fs" /\ pc' = "link"
    /\ \E n \in Names \cup {0} : fs' = n /\ Compile(n)
    /\ UNCHANGED <<prog, egl, vs, program, vbo, vao>>

\* Where a failing step leads: main returns 4, realize returns false.
Failed == IF prog = "egl" THEN "exit" ELSE "failed"

\* Mutant of ShadersLeft: realize returns without deleting the other shader.
ShadersLeftBoth == owned

\* What is left of the shaders when one of them failed: render_init leaves
\* the other one, realize deletes it.
ShadersLeft ==
    IF prog = "egl" THEN owned ELSE Less(Less(owned, "shader", vs), "shader", fs)

ShadersFail ==
    /\ pc = "link" /\ (vs = 0 \/ fs = 0)
    /\ owned' = ShadersLeft /\ vs' = 0 /\ fs' = 0 /\ pc' = Failed
    /\ UNCHANGED <<prog, egl, program, vbo, vao>>

\* The program has its shaders attached; their own names are given back.
Linked(n) ==
    Less(Less(owned, "shader", vs), "shader", fs) \cup {<<"program", n>>}

Link ==
    /\ pc = "link" /\ vs # 0 /\ fs # 0
    /\ \E n \in Fresh("program") :
          program' = n /\ owned' = Linked(n)
    /\ vs' = 0 /\ fs' = 0 /\ pc' = "geometry"
    /\ UNCHANGED <<prog, egl, vbo, vao>>

\* render_init keeps a program that does not link, link_program deletes it.
LinkFails ==
    /\ pc = "link" /\ vs # 0 /\ fs # 0
    /\ \E n \in Fresh("program") :
          /\ program' = IF prog = "egl" THEN n ELSE 0
          /\ owned' = IF prog = "egl" THEN Linked(n) ELSE Less(Linked(n), "program", n)
    /\ vs' = 0 /\ fs' = 0 /\ pc' = Failed
    /\ UNCHANGED <<prog, egl, vbo, vao>>

\* The vertices; the cube has a vertex array as well.
Geometry ==
    /\ pc = "geometry" /\ pc' = "ready"
    /\ vbo' \in Fresh("buffer")
    /\ vao' \in IF prog = "cube" THEN Fresh("array") ELSE {0}
    /\ owned' = owned \cup {<<"buffer", vbo'>>}
                      \cup (IF prog = "cube" THEN {<<"array", vao'>>} ELSE {})
    /\ UNCHANGED <<prog, egl, vs, fs, program>>

------------------------------------------------------------------------------
(* render_fini and free_gl: what is not 0 is deleted and set to 0 *)

\* The EGL client leaves its loop; GTK unrealizes the area, whose renderer
\* may have failed.
Free ==
    /\ pc \in {"ready", "failed"} /\ pc' = "free"
    /\ UNCHANGED <<prog, egl, glVars>>

\* Mutant of Zeroed: the name stays behind.
ZeroedNot(name) == name

Zeroed(name) == 0

FreeObjects ==
    /\ pc = "free" /\ pc' = "freed"
    /\ owned' = Less(Less(Less(owned, "program", program), "buffer", vbo), "array", vao)
    /\ program' = Zeroed(program) /\ vbo' = 0 /\ vao' = 0
    /\ UNCHANGED <<prog, egl, vs, fs>>

\* GTK drops the context, and with it what is left in it.
Unrealized ==
    /\ prog = "cube" /\ pc = "freed" /\ egl' = {} /\ owned' = {} /\ pc' = "off"
    /\ UNCHANGED <<prog, vs, fs, program, vbo, vao>>

\* The window is gone, the last clone of the renderer is dropped.
DropRenderer ==
    /\ prog = "cube" /\ pc = "off" /\ pc' = "exit"
    /\ UNCHANGED <<prog, egl, glVars>>

\* Mutant of TeardownOrder: the window goes before its surface.
TeardownOrderWindowFirst == <<"current", "window", "surface", "context", "display">>

\* eglMakeCurrent(none), eglDestroySurface, wl_egl_window_destroy,
\* eglDestroyContext, eglTerminate
TeardownOrder == <<"current", "surface", "window", "context", "display">>

EglTeardown ==
    /\ prog = "egl" /\ pc = "freed" /\ egl # {}
    /\ \E i \in 1..5 :
          /\ TeardownOrder[i] \in egl
          /\ \A j \in 1..(i - 1) : TeardownOrder[j] \notin egl
          /\ egl' = egl \ {TeardownOrder[i]}
    /\ UNCHANGED <<prog, pc, glVars>>

EglExit ==
    /\ prog = "egl" /\ pc = "freed" /\ egl = {} /\ pc' = "exit"
    /\ UNCHANGED <<prog, egl, glVars>>

Ended == pc = "exit" /\ UNCHANGED vars

Next ==
    \/ EglSetup \/ EglAttach \/ Realize \/ CompileVs \/ CompileFs \/ ShadersFail
    \/ Link \/ LinkFails \/ Geometry \/ Free \/ FreeObjects \/ Unrealized
    \/ DropRenderer \/ EglTeardown \/ EglExit \/ Ended

Spec == Init /\ [][Next]_vars

------------------------------------------------------------------------------
(* Properties *)

GlTypeOK ==
    /\ prog \in {"egl", "cube"} /\ pc \in Places /\ egl \subseteq EglThings
    /\ owned \subseteq Kinds \X Names
    /\ {vs, fs, program, vbo, vao} \subseteq Names \cup {0}

Live(kind, name) == name = 0 \/ <<kind, name>> \in owned

\* Whatever failed before, render_frame, draw, render_fini and free_gl meet
\* no name that GL has taken back, and perhaps given to another object.
NamesAreLive ==
    /\ Live("shader", vs) /\ Live("shader", fs)
    /\ Live("program", program) /\ Live("buffer", vbo) /\ Live("array", vao)

\* A realize that fails leaves nothing behind, and when the objects are freed
\* none remains in the context; with NamesAreLive, the warning of
\* CubeRenderer::drop is never printed.
NothingLeft == pc \in {"off", "failed", "freed"} => owned = {}

\* EGL is taken down from the surface to the display: nothing goes while
\* something that stands on it is left.
EglStands ==
    prog = "egl" =>
        /\ "current" \in egl => {"surface", "context"} \subseteq egl
        /\ "surface" \in egl => {"window", "display"} \subseteq egl
        /\ "context" \in egl => "display" \in egl
=============================================================================
