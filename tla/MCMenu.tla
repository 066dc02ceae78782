------------------------------- MODULE MCMenu -------------------------------
(***************************************************************************)
(* Menu for TLC: one disk, two child threads, a program and the shell, and *)
(* lines with every command and with every way cmd_dispatch can refuse one. *)
(***************************************************************************)
EXTENDS Menu

Cmd(func, nargs, arg) == [func |-> func, nargs |-> nargs, arg |-> arg]

CONSTANTS lhd0, long

s == Cmd("cmd_shell", 1, NULL)
p == Cmd("cmd_prog", 2, "prog")
mount == Cmd("cmd_mount", 3, lhd0)
bootfs_lhd0 == Cmd("cmd_bootfs", 2, lhd0)
cd == Cmd("cmd_chdir", 2, lhd0)
q == Cmd("cmd_quit", 1, NULL)

\* "mount sfs lhd0; bootfs lhd0; s" of menu.c, nothing, a mistake, and a name
\* that only the bootloader's line has room for.
MCBootLine == {<<mount, bootfs_lhd0, s>>, <<>>, <<Cmd(NULL, 1, NULL)>>,
               <<Cmd("cmd_prog", 2, long)>>}

MCLine == {<<p, s>>, <<mount>>, <<bootfs_lhd0>>, <<cd>>, <<q>>,
           <<Cmd("cmd_unmount", 2, lhd0)>>, <<Cmd("catmouse", 1, NULL)>>,
           <<Cmd("cmd_panic", 1, NULL)>>,
           <<Cmd("cmd_mainmenu", 1, NULL), Cmd("cmd_pwd", 1, NULL), Cmd("cmd_pwd", MAXMENUARGS + 1, NULL),
             Cmd("cmd_prog", 1, NULL), Cmd(NULL, 0, NULL)>>}
=============================================================================
