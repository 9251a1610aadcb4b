\* Two threads, one interpreter: two declarations at the same time.
SPECIFICATION HSpec
CONSTANTS
    Nombres = {x, y}
    Tipos = {"int"}
    MaxNumero = 2
    Numeros <- MCNumeros
    Caracteres = {c0}
    Literales = {1}
    Cero = 0
    CarNulo = c0
    Operadores = {}
    Aritmetica <- MCAritmetica
    Conversion <- MCConversion
    Capacidad = 2
    Indeterminado = Indeterminado
    Nulo = Nulo
    MaxNumVariables = 2
    MaxLlaves = 2
    Hilos = {h1, h2}
INVARIANT
    CoherenteEnReposo
CHECK_DEADLOCK FALSE
